---- MODULE Spec2Model ----
(***************************************************************************)
(* iguana: per-file evidence bundles (evidence_v2.go), their aggregation   *)
(* into a system model (internal/model) and the up-to-date check.          *)
(*                                                                         *)
(* Strings are sequences of one-character strings, compared byte-wise as   *)
(* Go compares strings.  Files on disk are held as decoded documents; an   *)
(* undecodable file is the value Corrupt, a missing file the value Absent. *)
(***************************************************************************)
EXTENDS Integers, Sequences, FiniteSets, TLC

VARIABLES
    src,        \* source tree: path -> source file | Absent
    companion,  \* <path>.evidence.yaml next to each source: bundle | Corrupt | Absent
    genFrom,    \* per path, the source bytes its companion was generated from
    settings,   \* .iguana/settings.yaml: settings | Absent
    modelFile,  \* system_model.yaml: model | Corrupt | Absent
    modelFrom,  \* the bundles the model on disk was generated from
    vault,      \* the vault directory: page path -> lines of the file
    repo,       \* the cloned repository: its URL and the commit checked out
    container,  \* the container directory: project name -> project config
    lastOp      \* the last step taken and what it reported

vars == <<src, companion, genFrom, settings, modelFile, modelFrom, vault, repo, container, lastOp>>

(***************************************************************************)
(* Bounds                                                                  *)
(***************************************************************************)
NumPaths == 2
NumSources == 4
NumReplies == 2
NumPkgNames == 3
NumDomainLists == 3
NumTreePaths == 4
NumRules == 7
NumQueryPaths == 8
NumLines == 6
MaxFileLines == 3
NumStaticSources == 3
NumCommits == 2
NumProjects == 2
NumConfigs == 4
NumDecls == 5
MaxDecls == 3
NumTaskPaths == 3

(***************************************************************************)
(* Strings                                                                 *)
(***************************************************************************)
\* The characters the model uses, in ascending byte order.
Ascii ==
    << "\n", "#", "(", ")", "*", "-", ".", "/",
       "0", "1", "2", "3", "4", "5", "6", "7", "8", "9", ":", "<", ">", "@",
       "C", "E", "F", "O", "Q", "R", "S", "T", "W", "_",
       "a", "b", "c", "d", "e", "f", "g", "h", "i", "j", "k", "l", "m",
       "n", "o", "p", "q", "r", "s", "t", "u", "v", "w", "x", "y", "z" >>

Chars == {Ascii[i] : i \in DOMAIN Ascii}

\* Rank of a character in byte order.
Ord == [c \in Chars |-> CHOOSE i \in DOMAIN Ascii : Ascii[i] = c]

\* Go's s < t on strings: lexicographic by byte, a proper prefix is smaller.
RECURSIVE StrLessFrom(_, _, _)
StrLessFrom(s, t, i) ==
    IF i > Len(t) THEN FALSE
    ELSE IF i > Len(s) THEN TRUE
    ELSE IF s[i] # t[i] THEN Ord[s[i]] < Ord[t[i]]
    ELSE StrLessFrom(s, t, i + 1)

StrLess(s, t) == StrLessFrom(s, t, 1)

StrLeq(s, t) == s = t \/ StrLess(s, t)

HasPrefix(s, p) == Len(p) <= Len(s) /\ SubSeq(s, 1, Len(p)) = p

HasSuffix(s, p) == Len(p) <= Len(s) /\ SubSeq(s, Len(s) - Len(p) + 1, Len(s)) = p

TrimPrefix(s, p) == IF HasPrefix(s, p) THEN SubSeq(s, Len(p) + 1, Len(s)) ELSE s

TrimSuffix(s, p) == IF HasSuffix(s, p) THEN SubSeq(s, 1, Len(s) - Len(p)) ELSE s

Contains(s, sub) ==
    \E i \in 1..(Len(s) + 1) : i + Len(sub) - 1 <= Len(s) /\ SubSeq(s, i, i + Len(sub) - 1) = sub

\* strings.Split(s, sep) for a one-character separator.
RECURSIVE SplitFrom(_, _, _, _)
SplitFrom(s, sep, i, cur) ==
    IF i > Len(s) THEN <<cur>>
    ELSE IF s[i] = sep THEN <<cur>> \o SplitFrom(s, sep, i + 1, <<>>)
    ELSE SplitFrom(s, sep, i + 1, Append(cur, s[i]))

Split(s, sep) == SplitFrom(s, sep, 1, <<>>)

\* strings.Join(parts, sep)
RECURSIVE Join(_, _)
Join(parts, sep) ==
    IF Len(parts) = 0 THEN <<>>
    ELSE IF Len(parts) = 1 THEN parts[1]
    ELSE parts[1] \o sep \o Join(Tail(parts), sep)

\* Sort keys are tuples of strings, compared component by component.
RECURSIVE KeyLessFrom(_, _, _)
KeyLessFrom(a, b, i) ==
    IF i > Len(a) \/ i > Len(b) THEN FALSE
    ELSE IF a[i] # b[i] THEN StrLess(a[i], b[i])
    ELSE KeyLessFrom(a, b, i + 1)

KeyLess(a, b) == KeyLessFrom(a, b, 1)

\* sort.Slice(seq, less) where less compares the keys K[_]: each element goes to the
\* place given by the number of elements before it.  Elements with equal keys keep
\* their order here; sort.Slice may order them either way and nothing below rests on it.
SortOn(seq, K) ==
    LET before(i) == {j \in DOMAIN seq :
                        \/ KeyLess(K[seq[j]], K[seq[i]])
                        \/ K[seq[j]] = K[seq[i]] /\ j < i}
    IN [r \in DOMAIN seq |-> seq[CHOOSE i \in DOMAIN seq : Cardinality(before(i)) + 1 = r]]

\* sort.Strings(seq)
SortStrings(seq) == SortOn(seq, [s \in {seq[i] : i \in DOMAIN seq} |-> <<s>>])

\* The elements of a finite set of strings as a sorted sequence (ranging a Go map, then sort.Strings).
SortedOfSet(S) ==
    [r \in 1..Cardinality(S) |-> CHOOSE x \in S : Cardinality({y \in S : StrLess(y, x)}) + 1 = r]

Range(seq) == {seq[i] : i \in DOMAIN seq}

\* All orderings of a finite set, as sequences.
RECURSIVE Perms(_)
Perms(S) ==
    IF S = {} THEN {<<>>}
    ELSE UNION {{<<x>> \o p : p \in Perms(S \ {x})} : x \in S}

(***************************************************************************)
(* Hasher                                                                  *)
(***************************************************************************)
HexDigits == << "0", "1", "2", "3", "4", "5", "6", "7", "8", "9", "a", "b", "c", "d", "e", "f" >>

\* A 24-bit stand-in for the SHA-256 compression: a running digest over the bytes,
\* seeded with their length.  DigestsDistinct below checks that it separates the
\* sources of the catalogue, which is what the code relies on SHA-256 for.
RECURSIVE DigestFrom(_, _, _)
DigestFrom(bytes, i, h) ==
    IF i > Len(bytes) THEN h
    ELSE DigestFrom(bytes, i + 1, (h * 127 + Ord[bytes[i]]) % 16777213)

\* hex.EncodeToString: fixed width, lowercase.
RECURSIVE HexOf(_, _)
HexOf(n, width) ==
    IF width = 0 THEN <<>>
    ELSE Append(HexOf(n \div 16, width - 1), HexDigits[(n % 16) + 1])

\* hex(sha256.Sum256(bytes))
Sha256Hex(bytes) == HexOf(DigestFrom(bytes, 1, Len(bytes) + 1), 6)

(***************************************************************************)
(* Literals                                                                *)
(***************************************************************************)
\* A source file that is listed in its directory but cannot be read, and a companion
\* path that cannot be written (a directory of that name).
Unreadable == [kind |-> "unreadable"]
Unwritable == [kind |-> "unwritable"]
ReadError == [kind |-> "read"]
Absent == [kind |-> "absent"]
Corrupt == [kind |-> "corrupt"]
ParseError == [kind |-> "parse"]
NoStr == <<>>

S_slash == "/"
S_go == <<".", "g", "o">>
S_test_go == <<"_", "t", "e", "s", "t", ".", "g", "o">>
S_vendor == <<"v", "e", "n", "d", "o", "r">>
S_testdata == <<"t", "e", "s", "t", "d", "a", "t", "a">>
S_examples == <<"e", "x", "a", "m", "p", "l", "e", "s">>
S_docs == <<"d", "o", "c", "s">>
S_main == <<"m", "a", "i", "n">>
S_store == <<"s", "t", "o", "r", "e">>
S_util == <<"u", "t", "i", "l">>
S_database_sql == <<"d", "a", "t", "a", "b", "a", "s", "e", "/", "s", "q", "l">>
S_net == <<"n", "e", "t">>
S_net_http == <<"n", "e", "t", "/", "h", "t", "t", "p">>
S_sync == <<"s", "y", "n", "c">>
S_sync_slash == <<"s", "y", "n", "c", "/">>
S_iguana_store == <<"i", "g", "u", "a", "n", "a", "/", "s", "t", "o", "r", "e">>
S_os_Open == <<"o", "s", ".", "O", "p", "e", "n">>
S_os_ReadFile == <<"o", "s", ".", "R", "e", "a", "d", "F", "i", "l", "e">>
S_ioutil_ReadFile == <<"i", "o", "u", "t", "i", "l", ".", "R", "e", "a", "d", "F", "i", "l", "e">>
S_filepath_Walk == <<"f", "i", "l", "e", "p", "a", "t", "h", ".", "W", "a", "l", "k">>
S_os_Create == <<"o", "s", ".", "C", "r", "e", "a", "t", "e">>
S_os_WriteFile == <<"o", "s", ".", "W", "r", "i", "t", "e", "F", "i", "l", "e">>
S_os_Remove == <<"o", "s", ".", "R", "e", "m", "o", "v", "e">>
S_Query == <<"Q", "u", "e", "r", "y">>
S_Exec == <<"E", "x", "e", "c">>
S_Scan == <<"S", "c", "a", "n">>
S_http_Client == <<"h", "t", "t", "p", ".", "C", "l", "i", "e", "n", "t">>
S_rows_Scan == <<"r", "o", "w", "s", ".", "S", "c", "a", "n">>

(***************************************************************************)
(* Bounded inputs: the paths of the tree and the source files put at them  *)
(***************************************************************************)
PathCatalog ==
    << <<"z", ".", "g", "o">>,
       <<"s", "/", "d", ".", "g", "o">>,
       <<"a", ".", "g", "o">>,
       <<"v", "e", "n", "d", "o", "r", "/", "v", ".", "g", "o">>,
       <<"a", "_", "t", "e", "s", "t", ".", "g", "o">> >>

Paths == {PathCatalog[i] : i \in 1..NumPaths}

\* A source file: its bytes and what go/parser reads out of them.  parses = FALSE
\* is a file parser.ParseFile rejects.
SourceCatalog ==
    << [bytes |-> <<"m">>, parses |-> TRUE, pkg |-> S_main, imports |-> <<S_net_http, S_iguana_store>>,
        calls |-> {S_os_ReadFile, S_os_WriteFile}, funcs |-> {S_main}, conc |-> FALSE],
       [bytes |-> <<"s">>, parses |-> TRUE, pkg |-> S_store, imports |-> <<S_sync, S_database_sql>>,
        calls |-> {}, funcs |-> {<<"s">>}, conc |-> FALSE],
       [bytes |-> <<"x", "(">>, parses |-> FALSE, pkg |-> NoStr, imports |-> <<>>,
        calls |-> {}, funcs |-> {}, conc |-> FALSE],
       [bytes |-> <<"u">>, parses |-> TRUE, pkg |-> S_util, imports |-> <<>>,
        calls |-> {}, funcs |-> {<<"u">>}, conc |-> FALSE],
       [bytes |-> <<"n", "w">>, parses |-> TRUE, pkg |-> S_main, imports |-> <<>>,
        calls |-> {S_http_Client}, funcs |-> {<<"h">>}, conc |-> TRUE],
       [bytes |-> <<"r">>, parses |-> TRUE, pkg |-> S_store, imports |-> <<>>,
        calls |-> {S_rows_Scan, S_os_Remove}, funcs |-> {<<"r">>}, conc |-> FALSE] >>

Sources == {SourceCatalog[i] : i \in 1..NumSources}

(***************************************************************************)
(* BundleBuilder (evidence_v2.go)                                          *)
(***************************************************************************)
S_evidence_yaml == <<".", "e", "v", "i", "d", "e", "n", "c", "e", ".", "y", "a", "m", "l">>

\* extractPackageMeta: the package name and the imports sorted by path.
extractPackageMeta(file) == [name |-> file.pkg, imports |-> SortStrings(file.imports)]

\* extractSignals: the five heuristics over the import set, the call targets and the AST.
extractSignals(meta, calls, file) ==
    LET importSet == Range(meta.imports)
        dbImport  == S_database_sql \in importSet
        netImport == S_net \in importSet \/ S_net_http \in importSet
        syncImport == \E path \in importSet : path = S_sync \/ HasPrefix(path, S_sync_slash)
    IN [fs_reads  |-> \E fn \in {S_os_Open, S_os_ReadFile, S_ioutil_ReadFile, S_filepath_Walk} : fn \in calls,
        fs_writes |-> \E fn \in {S_os_Create, S_os_WriteFile, S_os_Remove} : fn \in calls,
        db_calls  |-> dbImport \/ \E target \in calls :
                          Contains(target, S_Query) \/ Contains(target, S_Exec) \/ Contains(target, S_Scan),
        net_calls |-> netImport \/ \E target \in calls : Contains(target, S_http_Client),
        concurrency |-> syncImport \/ file.conc]

\* buildBundle: assemble the bundle of one parsed file.  Only the declared function
\* names of symbols and the targets of calls are kept; the aggregation reads no more.
buildBundle(normalizedPath, hash, file) ==
    LET pkgMeta == extractPackageMeta(file)
    IN [version |-> 2,
        file |-> [path |-> normalizedPath, sha256 |-> hash],
        package |-> pkgMeta,
        functions |-> SortedOfSet(file.funcs),
        calls |-> SortedOfSet(file.calls),
        signals |-> extractSignals(pkgMeta, file.calls, file)]

\* buildBundleForFile: read, hash, parse.  Yields the bundle, "read file" for a file
\* that cannot be read, or "parse" for a file the parser rejects.
buildBundleForFile(relPath, source) ==
    IF source = Unreadable THEN ReadError
    ELSE IF ~source.parses THEN ParseError
    ELSE buildBundle(relPath, Sha256Hex(source.bytes), source)

\* A validate that checks only that the source can still be read.
validate_NoRehash(bundle, tree) ==
    IF tree[bundle.file.path] \in {Absent, Unreadable} THEN "readerr" ELSE "ok"

\* validateEvidenceBundleV2: re-hash the source the bundle names and compare.
validateEvidenceBundleV2(bundle, tree) ==
    IF tree[bundle.file.path] \in {Absent, Unreadable} THEN "readerr"
    ELSE IF Sha256Hex(tree[bundle.file.path].bytes) # bundle.file.sha256 THEN "stale"
    ELSE "ok"

(***************************************************************************)
(* TreeWalker (evidence_v2.go walkAndGenerate)                             *)
(***************************************************************************)
\* The directory part and the leaf name of a slash path.
DirSegs(path) == LET segs == Split(path, S_slash) IN SubSeq(segs, 1, Len(segs) - 1)

Base(path) == LET segs == Split(path, S_slash) IN segs[Len(segs)]

Dir(path) == Join(DirSegs(path), <<S_slash>>)

\* The directories WalkDir does not descend into.
IsSkippedDir(name) ==
    name \in {S_vendor, S_testdata, S_examples, S_docs} \/ HasPrefix(name, <<".">>)

\* The files the walk collects into filesByDir: .go, not _test.go, under no skipped directory.
IsWalkedSource(path) ==
    /\ \A i \in DOMAIN DirSegs(path) : ~IsSkippedDir(DirSegs(path)[i])
    /\ HasSuffix(Base(path), S_go)
    /\ ~HasSuffix(Base(path), S_test_go)

\* Directories in sorted order, the files of each in sorted order.
WalkOrder(tree) ==
    LET found == {p \in DOMAIN tree : tree[p] # Absent /\ IsWalkedSource(p)}
    IN SortOn(SortedOfSet(found), [p \in found |-> <<Dir(p), p>>])

\* writeBundleAt: os.WriteFile of the companion; it fails where the path cannot be written.
writeBundleAt(bundle, absFilePath, disk) ==
    IF disk[absFilePath] = Unwritable THEN [err |-> "write", disk |-> disk]
    ELSE [err |-> "none", disk |-> [disk EXCEPT ![absFilePath] = bundle]]

\* A loop that returns at the first file that fails.
RECURSIVE walkFiles_StopAtError(_, _, _)
walkFiles_StopAtError(files, tree, acc) ==
    IF Len(files) = 0 THEN acc
    ELSE LET absPath == files[1]
             bundle == buildBundleForFile(absPath, tree[absPath])
             put == writeBundleAt(bundle, absPath, acc.disk)
         IN IF bundle \in {ReadError, ParseError}
            THEN [acc EXCEPT !.errs = Append(@, [stage |-> "build bundle", path |-> absPath])]
            ELSE IF put.err # "none"
            THEN [acc EXCEPT !.errs = Append(@, [stage |-> "write bundle", path |-> absPath])]
            ELSE walkFiles_StopAtError(Tail(files), tree,
                                       [acc EXCEPT !.disk = put.disk,
                                                   !.wrote = Append(@, absPath),
                                                   !.written = @ + 1])

\* The per-file loop of walkAndGenerate over the remaining files: each file is built
\* and written with writeBundleAt (an unconditional os.WriteFile); a file that fails
\* to build or to write adds its error and the loop goes on.
RECURSIVE walkFiles(_, _, _)
walkFiles(files, tree, acc) ==
    IF Len(files) = 0 THEN acc
    ELSE LET absPath == files[1]
             bundle == buildBundleForFile(absPath, tree[absPath])
             put == writeBundleAt(bundle, absPath, acc.disk)
         IN IF bundle \in {ReadError, ParseError}
            THEN walkFiles(Tail(files), tree,
                           [acc EXCEPT !.errs = Append(@, [stage |-> "build bundle", path |-> absPath])])
            ELSE IF put.err # "none"
            THEN walkFiles(Tail(files), tree,
                           [acc EXCEPT !.errs = Append(@, [stage |-> "write bundle", path |-> absPath])])
            ELSE walkFiles(Tail(files), tree,
                           [acc EXCEPT !.disk = put.disk,
                                       !.wrote = Append(@, absPath),
                                       !.written = @ + 1])

\* walkAndGenerate(root): the companions after the walk, the count it returns, the
\* errors it accumulated and the companion paths it wrote, in order.
walkAndGenerate(tree, disk) ==
    walkFiles(WalkOrder(tree), tree, [disk |-> disk, written |-> 0, errs |-> <<>>, wrote |-> <<>>])

(***************************************************************************)
(* Settings: the deny list (settings.go)                                   *)
(***************************************************************************)
S_Read_open == <<"R", "e", "a", "d", "(">>
S_dot_slash == <<".", "/">>
S_slash_starstar == <<"/", "*", "*">>

\* parseDenyRule: strip a Read(...) wrapper, then a leading "./".
parseDenyRule(rule) ==
    LET inner == IF HasPrefix(rule, S_Read_open) /\ HasSuffix(rule, <<")">>)
                 THEN SubSeq(rule, 6, Len(rule) - 1)
                 ELSE rule
    IN TrimPrefix(inner, S_dot_slash)

\* A match in which * runs across "/" as well.
RECURSIVE GlobMatch_StarCrossesSlash(_, _)
GlobMatch_StarCrossesSlash(pattern, name) ==
    IF Len(pattern) = 0 THEN Len(name) = 0
    ELSE IF pattern[1] = "*"
         THEN \/ GlobMatch_StarCrossesSlash(Tail(pattern), name)
              \/ Len(name) > 0 /\ GlobMatch_StarCrossesSlash(pattern, Tail(name))
    ELSE /\ Len(name) > 0
         /\ name[1] = pattern[1]
         /\ GlobMatch_StarCrossesSlash(Tail(pattern), Tail(name))

\* filepath.Match for patterns of literals and *: a * does not match a "/".
RECURSIVE GlobMatch(_, _)
GlobMatch(pattern, name) ==
    IF Len(pattern) = 0 THEN Len(name) = 0
    ELSE IF pattern[1] = "*"
         THEN \/ GlobMatch(Tail(pattern), name)
              \/ Len(name) > 0 /\ name[1] # S_slash /\ GlobMatch(pattern, Tail(name))
    ELSE /\ Len(name) > 0
         /\ name[1] = pattern[1]
         /\ GlobMatch(Tail(pattern), Tail(name))

\* matchDenyPattern: "prefix/**" is the prefix itself and all beneath it; else a glob.
matchDenyPattern(pattern, path) ==
    IF HasSuffix(pattern, S_slash_starstar)
    THEN LET prefix == TrimSuffix(pattern, S_slash_starstar)
         IN path = prefix \/ HasPrefix(path, prefix \o <<S_slash>>)
    ELSE GlobMatch(pattern, path)

\* (*Settings).IsDenied: a nil receiver denies nothing.
IsDenied(s, relPath) ==
    /\ s # Absent
    /\ \E i \in DOMAIN s.deny : matchDenyPattern(parseDenyRule(s.deny[i]), relPath)

(***************************************************************************)
(* ModelAggregator (internal/model)                                        *)
(***************************************************************************)
S_bundle_colon == <<"b", "u", "n", "d", "l", "e", ":">>
S_at_v == <<"@", "v">>
S_symbol_main == <<"s", "y", "m", "b", "o", "l", ":", "m", "a", "i", "n">>
S_signal_colon == <<"s", "i", "g", "n", "a", "l", ":">>
S_db_calls == <<"d", "b", "_", "c", "a", "l", "l", "s">>
S_fs_reads == <<"f", "s", "_", "r", "e", "a", "d", "s">>
S_fs_writes == <<"f", "s", "_", "w", "r", "i", "t", "e", "s">>
S_net_calls == <<"n", "e", "t", "_", "c", "a", "l", "l", "s">>
S_concurrency == <<"c", "o", "n", "c", "u", "r", "r", "e", "n", "c", "y">>
S_db_write == <<"d", "b", "_", "w", "r", "i", "t", "e">>
S_fs_read == <<"f", "s", "_", "r", "e", "a", "d">>
S_fs_write == <<"f", "s", "_", "w", "r", "i", "t", "e">>
S_net_call == <<"n", "e", "t", "_", "c", "a", "l", "l">>
S_test_go_evidence_yaml == S_test_go \o S_evidence_yaml

\* fmt's %d for a non-negative integer.
RECURSIVE Itoa(_)
Itoa(n) ==
    IF n < 10 THEN <<HexDigits[n + 1]>>
    ELSE Append(Itoa(n \div 10), HexDigits[(n % 10) + 1])

\* evidenceRef: fmt.Sprintf("bundle:%s@v%d", path, version), then "#"+fragment if any.
evidenceRef(path, version, fragment) ==
    LET base == S_bundle_colon \o path \o S_at_v \o Itoa(version)
    IN IF fragment # NoStr THEN base \o <<"#">> \o fragment ELSE base

\* The directory prefixes WalkDir passes through on the way to path: "a", "a/b", ...
DirPrefixes(path) ==
    LET segs == DirSegs(path)
    IN {Join(SubSeq(segs, 1, n), <<S_slash>>) : n \in 1..Len(segs)}

\* Whether loadEvidenceBundles reads the bundle file kept next to source path p.
IsLoadedBundleFile(p, s) ==
    LET bundleFile == p \o S_evidence_yaml
    IN /\ \A i \in DOMAIN DirSegs(p) : ~IsSkippedDir(DirSegs(p)[i])
       /\ \A d \in DirPrefixes(p) : ~IsDenied(s, d)
       /\ ~HasSuffix(Base(bundleFile), S_test_go_evidence_yaml)
       /\ ~IsDenied(s, bundleFile)

\* loadEvidenceBundles(root): the decoded bundles sorted by File.Path, or the error
\* of unreadable settings or of a bundle file that does not decode.
loadEvidenceBundles(disk, s) ==
    LET read == {p \in DOMAIN disk : disk[p] \notin {Absent, Unwritable} /\ IsLoadedBundleFile(p, s)}
        byFile == SortedOfSet(read)
        found == [i \in DOMAIN byFile |-> disk[byFile[i]]]
    IN IF s = Corrupt THEN [err |-> "settings", bundles |-> <<>>]
       ELSE IF \E p \in read : disk[p] = Corrupt THEN [err |-> "unmarshal", bundles |-> <<>>]
       ELSE [err |-> "none",
             bundles |-> SortOn(found, [b \in Range(found) |-> <<b.file.path>>])]

\* A hash over the paths alone, leaving the content hashes out of the lines.
computeBundleSetHash_PathsOnly(bundles) ==
    LET lines == [i \in DOMAIN bundles |-> bundles[i].file.path]
    IN Sha256Hex(Join(SortStrings(lines), <<"\n">>))

\* A hash over the lines in the order the bundles come in, with the sort left out.
computeBundleSetHash_NoSort(bundles) ==
    LET lines == [i \in DOMAIN bundles |-> bundles[i].file.path \o <<"@">> \o bundles[i].file.sha256]
    IN Sha256Hex(Join(lines, <<"\n">>))

\* computeBundleSetHash: SHA-256 over the sorted "path@sha256" lines joined by "\n".
computeBundleSetHash(bundles) ==
    LET lines == [i \in DOMAIN bundles |-> bundles[i].file.path \o <<"@">> \o bundles[i].file.sha256]
    IN Sha256Hex(Join(SortStrings(lines), <<"\n">>))

\* hasSymbol: the bundle declares a function of that name.
hasSymbol(bundle, name) == \E i \in DOMAIN bundle.functions : bundle.functions[i] = name

\* The bundles of package pkg, in the order given.
OfPackage(bundles, pkg) == SelectSeq(bundles, LAMBDA b : b.package.name = pkg)

\* buildInventory: one entry per package name, sorted; entrypoints for package main.
buildInventory(bundles) ==
    LET pkgNameSet == {bundles[i].package.name : i \in DOMAIN bundles}
        pkgNames == SortedOfSet(pkgNameSet)
        pkgFiles(name) == [i \in DOMAIN OfPackage(bundles, name) |-> OfPackage(bundles, name)[i].file.path]
        pkgRefs(name) == [i \in DOMAIN OfPackage(bundles, name) |->
                             evidenceRef(OfPackage(bundles, name)[i].file.path,
                                         OfPackage(bundles, name)[i].version, NoStr)]
        dep(imp) == LET parts == Split(imp, S_slash) IN parts[Len(parts)]
        pkgImports(name) ==
            UNION {{dep(b.package.imports[k]) :
                        k \in {j \in DOMAIN b.package.imports :
                                  /\ dep(b.package.imports[j]) \in pkgNameSet
                                  /\ dep(b.package.imports[j]) # name}} :
                   b \in Range(OfPackage(bundles, name))}
        mains == SelectSeq(bundles, LAMBDA b : b.package.name = S_main /\ hasSymbol(b, S_main))
    IN [packages |->
            [i \in DOMAIN pkgNames |->
                [name |-> pkgNames[i],
                 files |-> SortStrings(pkgFiles(pkgNames[i])),
                 imports |-> SortedOfSet(pkgImports(pkgNames[i])),
                 evidence_refs |-> SortStrings(pkgRefs(pkgNames[i]))]],
        entrypoints |->
            IF S_main \in pkgNameSet
            THEN [i \in DOMAIN mains |->
                    [package |-> mains[i].package.name,
                     symbol |-> S_main,
                     evidence_refs |-> <<evidenceRef(mains[i].file.path, mains[i].version, S_symbol_main)>>]]
            ELSE <<>>]

\* A SymbolRef for the file of bundle b, carrying its signal reference.
SymbolRefOf(b, signal) ==
    [file |-> b.file.path,
     evidence_refs |-> <<evidenceRef(b.file.path, b.version, S_signal_colon \o signal)>>]

\* buildBoundaries: db and fs persistence writers and outbound network files.
buildBoundaries(bundles) ==
    LET dbB == SelectSeq(bundles, LAMBDA b : b.signals.db_calls)
        fsB == SelectSeq(bundles, LAMBDA b : b.signals.fs_writes)
        netB == SelectSeq(bundles, LAMBDA b : b.signals.net_calls)
        dbWriters == [i \in DOMAIN dbB |-> SymbolRefOf(dbB[i], S_db_calls)]
        fsWriters == [i \in DOMAIN fsB |-> SymbolRefOf(fsB[i], S_fs_writes)]
        outbound == [i \in DOMAIN netB |-> SymbolRefOf(netB[i], S_net_calls)]
    IN [persistence |->
            (IF Len(dbWriters) > 0 THEN <<[kind |-> <<"d", "b">>, writers |-> dbWriters]>> ELSE <<>>)
            \o (IF Len(fsWriters) > 0 THEN <<[kind |-> <<"f", "s">>, writers |-> fsWriters]>> ELSE <<>>),
        network |-> [outbound |-> outbound]]

\* One Effect of bundle b.
EffectOf(b, kind, signal) ==
    [kind |-> kind, domain |-> NoStr, via |-> b.file.path,
     evidence_refs |-> <<evidenceRef(b.file.path, b.version, S_signal_colon \o signal)>>]

\* The effects of one bundle with the fs_reads test emitting the kind of fs_writes.
EffectsOfBundle_ReadAsWrite(b) ==
    (IF b.signals.db_calls THEN <<EffectOf(b, S_db_write, S_db_calls)>> ELSE <<>>)
    \o (IF b.signals.fs_reads THEN <<EffectOf(b, S_fs_write, S_fs_reads)>> ELSE <<>>)
    \o (IF b.signals.fs_writes THEN <<EffectOf(b, S_fs_write, S_fs_writes)>> ELSE <<>>)
    \o (IF b.signals.net_calls THEN <<EffectOf(b, S_net_call, S_net_calls)>> ELSE <<>>)

\* The effects buildEffects appends for one bundle, in the order of its four tests.
EffectsOfBundle(b) ==
    (IF b.signals.db_calls THEN <<EffectOf(b, S_db_write, S_db_calls)>> ELSE <<>>)
    \o (IF b.signals.fs_reads THEN <<EffectOf(b, S_fs_read, S_fs_reads)>> ELSE <<>>)
    \o (IF b.signals.fs_writes THEN <<EffectOf(b, S_fs_write, S_fs_writes)>> ELSE <<>>)
    \o (IF b.signals.net_calls THEN <<EffectOf(b, S_net_call, S_net_calls)>> ELSE <<>>)

RECURSIVE AppendedEffects(_)
AppendedEffects(bundles) ==
    IF Len(bundles) = 0 THEN <<>>
    ELSE EffectsOfBundle(bundles[1]) \o AppendedEffects(Tail(bundles))

\* The appended effects left in the order of the bundles, with the sort left out.
buildEffects_NoSort(bundles) == AppendedEffects(bundles)

\* buildEffects: the appended effects sorted by kind, then via.
buildEffects(bundles) ==
    LET effects == AppendedEffects(bundles)
    IN SortOn(effects, [e \in Range(effects) |-> <<e.kind, e.via>>])

\* buildConcurrencyDomains: one per bundle with the concurrency signal, sorted by id.
buildConcurrencyDomains(bundles) ==
    LET cb == SelectSeq(bundles, LAMBDA b : b.signals.concurrency)
        domains == [i \in DOMAIN cb |->
                      [id |-> cb[i].file.path, files |-> <<cb[i].file.path>>,
                       evidence_refs |-> <<evidenceRef(cb[i].file.path, cb[i].version,
                                                       S_signal_colon \o S_concurrency)>>]]
    IN SortOn(domains, [d \in Range(domains) |-> <<d.id>>])

\* buildPackageSummaries: per package the files, the OR of the signals and the
\* imports the deny list lets through; packages with no signal are left out, and at
\* most 60 summaries are kept.  Type and function descriptions go to the provider
\* only and are not kept.
buildPackageSummaries(bundles, s, moduleName) ==
    LET pkgNames == SortedOfSet({bundles[i].package.name : i \in DOMAIN bundles})
        of(name) == OfPackage(bundles, name)
        rel(imp) == IF moduleName # NoStr THEN TrimPrefix(imp, moduleName \o <<S_slash>>) ELSE imp
        signals(name) ==
            [fs_reads |-> \E b \in Range(of(name)) : b.signals.fs_reads,
             fs_writes |-> \E b \in Range(of(name)) : b.signals.fs_writes,
             db_calls |-> \E b \in Range(of(name)) : b.signals.db_calls,
             net_calls |-> \E b \in Range(of(name)) : b.signals.net_calls,
             concurrency |-> \E b \in Range(of(name)) : b.signals.concurrency]
        hasAnySignal(g) == g.fs_reads \/ g.fs_writes \/ g.db_calls \/ g.net_calls \/ g.concurrency
        imports(name) ==
            UNION {{b.package.imports[k] :
                        k \in {j \in DOMAIN b.package.imports : ~IsDenied(s, rel(b.package.imports[j]))}} :
                   b \in Range(of(name))}
        kept == SelectSeq(pkgNames, LAMBDA name : hasAnySignal(signals(name)))
        summaries == [i \in DOMAIN kept |->
                        [name |-> kept[i],
                         files |-> SortStrings([k \in DOMAIN of(kept[i]) |-> of(kept[i])[k].file.path]),
                         signals |-> signals(kept[i]),
                         imports |-> SortedOfSet(imports(kept[i]))]]
    IN IF Len(summaries) > 60 THEN SubSeq(summaries, 1, 60) ELSE summaries

\* pkgBundleRefs: the sorted refs of the bundles whose package is one of pkgNames.
pkgBundleRefs(bundles, pkgNames) ==
    LET in == SelectSeq(bundles, LAMBDA b : b.package.name \in Range(pkgNames))
    IN SortStrings([i \in DOMAIN in |-> evidenceRef(in[i].file.path, in[i].version, NoStr)])

\* sortedCopy: a sorted copy; an empty slice comes back nil.
sortedCopy(s) == IF Len(s) = 0 THEN <<>> ELSE SortStrings(s)

\* Domains mapped but left in the order of the provider's reply.
mapStateDomains_Unsorted(specs, bundles) ==
    [i \in DOMAIN specs |->
        [id |-> specs[i].id,
         owners |-> sortedCopy(specs[i].owners),
         evidence_refs |-> pkgBundleRefs(bundles, specs[i].owners)]]

\* mapStateDomains: one domain per spec, then sorted by id.  The description,
\* aggregate, representations, mutators, readers and confidence are copied through.
mapStateDomains(specs, bundles) ==
    LET domains == [i \in DOMAIN specs |->
                      [id |-> specs[i].id,
                       owners |-> sortedCopy(specs[i].owners),
                       evidence_refs |-> pkgBundleRefs(bundles, specs[i].owners)]]
    IN SortOn(domains, [d \in Range(domains) |-> <<d.id>>])

\* A linkage that keeps only the effects for which it found a domain.
linkEffectsToDomains_DropsUnowned(effects, domains, bundles) ==
    LET fileToPkg(via) ==
            LET at == {i \in DOMAIN bundles : bundles[i].file.path = via}
            IN IF at = {} THEN NoStr
               ELSE bundles[CHOOSE i \in at : \A j \in at : j <= i].package.name
        pkgToDomain(pkg) ==
            LET owning == {i \in DOMAIN domains : pkg \in Range(domains[i].owners)}
            IN IF owning = {} THEN NoStr
               ELSE domains[CHOOSE i \in owning : \A j \in owning : i <= j].id
        linked == [i \in DOMAIN effects |-> [effects[i] EXCEPT !.domain = pkgToDomain(fileToPkg(effects[i].via))]]
    IN SelectSeq(linked, LAMBDA e : e.domain # NoStr)

\* linkEffectsToDomains: file -> package -> the first domain, in the order given,
\* that owns the package; a missing map key reads as the empty string.
linkEffectsToDomains(effects, domains, bundles) ==
    LET fileToPkg(via) ==
            LET at == {i \in DOMAIN bundles : bundles[i].file.path = via}
            IN IF at = {} THEN NoStr
               ELSE bundles[CHOOSE i \in at : \A j \in at : j <= i].package.name
        pkgToDomain(pkg) ==
            LET owning == {i \in DOMAIN domains : pkg \in Range(domains[i].owners)}
            IN IF owning = {} THEN NoStr
               ELSE domains[CHOOSE i \in owning : \A j \in owning : i <= j].id
    IN [i \in DOMAIN effects |-> [effects[i] EXCEPT !.domain = pkgToDomain(fileToPkg(effects[i].via))]]

\* mapTrustZones: one zone per spec, then sorted by id.
mapTrustZones(specs, bundles) ==
    LET zones == [i \in DOMAIN specs |->
                    [id |-> specs[i].id,
                     packages |-> sortedCopy(specs[i].packages),
                     evidence_refs |-> pkgBundleRefs(bundles, specs[i].packages)]]
    IN SortOn(zones, [z \in Range(zones) |-> <<z.id>>])

\* mapOpenQuestions: one question per spec, then sorted by the question text.
mapOpenQuestions(specs) ==
    LET questions == [i \in DOMAIN specs |->
                        [question |-> specs[i].question,
                         related_domain |-> specs[i].related_domain,
                         missing_evidence |-> sortedCopy(specs[i].missing_evidence)]]
    IN SortOn(questions, [q \in Range(questions) |-> <<q.question>>])

\* What b.InferSystemModel may return: an error, or one of these replies.  In the
\* first, package main is owned by both domains, the reply lists them out of order
\* and package store is owned by none.
InferError == [kind |-> "error"]

ReplyCatalog ==
    << [state_domains |-> << [id |-> <<"b">>, owners |-> <<S_util, S_main>>],
                             [id |-> <<"a">>, owners |-> <<S_main>>] >>,
        trust_zones |-> << [id |-> <<"z">>, packages |-> <<S_main>>],
                           [id |-> <<"y">>, packages |-> <<S_store>>] >>,
        open_questions |-> << [question |-> <<"q">>, related_domain |-> <<"a">>,
                               missing_evidence |-> <<S_util, S_store>>],
                              [question |-> <<"p">>, related_domain |-> NoStr,
                               missing_evidence |-> <<>>] >>],
       [state_domains |-> << [id |-> <<"c">>, owners |-> <<S_store>>] >>,
        trust_zones |-> <<>>,
        open_questions |-> <<>>],
       [state_domains |-> <<>>, trust_zones |-> <<>>, open_questions |-> <<>>] >>

Replies == {ReplyCatalog[i] : i \in 1..NumReplies}

\* A generation that swallows the provider's error and returns the deterministic
\* sections alone.
GenerateSystemModel_SwallowsError(disk, s, infer) ==
    LET loaded == loadEvidenceBundles(disk, s)
        bundles == loaded.bundles
        asked == Len(buildPackageSummaries(bundles, s, NoStr)) > 0
        failed == asked /\ infer = InferError
        stateDomains == IF asked /\ ~failed THEN mapStateDomains(infer.state_domains, bundles) ELSE <<>>
    IN IF loaded.err # "none" THEN [err |-> "load bundles", inferred |-> FALSE]
       ELSE IF Len(bundles) = 0 THEN [err |-> "no evidence bundles", inferred |-> FALSE]
       ELSE [err |-> "none",
             inferred |-> asked,
             model |->
                [version |-> 1,
                 inputs |-> [bundle_set_sha256 |-> computeBundleSetHash(bundles)],
                 inventory |-> buildInventory(bundles),
                 state_domains |-> stateDomains,
                 boundaries |-> buildBoundaries(bundles),
                 effects |-> IF asked /\ ~failed
                             THEN linkEffectsToDomains(buildEffects(bundles), stateDomains, bundles)
                             ELSE buildEffects(bundles),
                 concurrency_domains |-> buildConcurrencyDomains(bundles),
                 trust_zones |-> IF asked /\ ~failed THEN mapTrustZones(infer.trust_zones, bundles) ELSE <<>>,
                 open_questions |-> IF asked /\ ~failed THEN mapOpenQuestions(infer.open_questions) ELSE <<>>]]

\* GenerateSystemModel: load, hash, build the deterministic sections, summarise, ask
\* the provider when there is a summary, map and link.  generated_at (the clock) is
\* not kept.  inferred tells whether the provider was asked.
GenerateSystemModel(disk, s, infer) ==
    LET loaded == loadEvidenceBundles(disk, s)
        bundles == loaded.bundles
        effects == buildEffects(bundles)
        summaries == buildPackageSummaries(bundles, s, NoStr)
        asked == Len(summaries) > 0
        stateDomains == IF asked THEN mapStateDomains(infer.state_domains, bundles) ELSE <<>>
    IN IF loaded.err # "none" THEN [err |-> "load bundles", inferred |-> FALSE]
       ELSE IF Len(bundles) = 0 THEN [err |-> "no evidence bundles", inferred |-> FALSE]
       ELSE IF asked /\ infer = InferError THEN [err |-> "infer system model", inferred |-> TRUE]
       ELSE [err |-> "none",
             inferred |-> asked,
             model |->
                [version |-> 1,
                 inputs |-> [bundle_set_sha256 |-> computeBundleSetHash(bundles)],
                 inventory |-> buildInventory(bundles),
                 state_domains |-> stateDomains,
                 boundaries |-> buildBoundaries(bundles),
                 effects |-> IF asked THEN linkEffectsToDomains(effects, stateDomains, bundles)
                             ELSE effects,
                 concurrency_domains |-> buildConcurrencyDomains(bundles),
                 trust_zones |-> IF asked THEN mapTrustZones(infer.trust_zones, bundles) ELSE <<>>,
                 open_questions |-> IF asked THEN mapOpenQuestions(infer.open_questions) ELSE <<>>]]

\* ReadSystemModel: the decoded model, or an error for a missing or undecodable file.
ReadSystemModel(file) ==
    IF file \in {Absent, Corrupt} THEN [err |-> "read"] ELSE [err |-> "none", model |-> file]

\* An up-to-date check that reports the failure to read the model as an error.
SystemModelUpToDate_ReadIsError(disk, s, file) ==
    LET loaded == loadEvidenceBundles(disk, s)
        existing == ReadSystemModel(file)
    IN IF loaded.err # "none" THEN [upToDate |-> FALSE, err |-> "load bundles"]
       ELSE IF Len(loaded.bundles) = 0 THEN [upToDate |-> FALSE, err |-> "none"]
       ELSE IF existing.err # "none" THEN [upToDate |-> FALSE, err |-> "read"]
       ELSE [upToDate |-> existing.model.inputs.bundle_set_sha256 = computeBundleSetHash(loaded.bundles),
             err |-> "none"]

\* SystemModelUpToDate: a load error is reported; no bundles, or a model that cannot
\* be read, is "not up to date" without an error; else the two hashes are compared.
SystemModelUpToDate(disk, s, file) ==
    LET loaded == loadEvidenceBundles(disk, s)
        existing == ReadSystemModel(file)
    IN IF loaded.err # "none" THEN [upToDate |-> FALSE, err |-> "load bundles"]
       ELSE IF Len(loaded.bundles) = 0 THEN [upToDate |-> FALSE, err |-> "none"]
       ELSE IF existing.err # "none" THEN [upToDate |-> FALSE, err |-> "none"]
       ELSE [upToDate |-> existing.model.inputs.bundle_set_sha256 = computeBundleSetHash(loaded.bundles),
             err |-> "none"]

\* WriteSystemModel: the file then decodes to the model.
WriteSystemModel(model) == model

(***************************************************************************)
(* Steps on the source tree and its companions                             *)
(***************************************************************************)
NoFiles == [p \in Paths |-> Absent]

\* A vault directory with no file in it.
NoPages == <<>>

\* No repository cloned.
NoRepo == [url |-> NoStr, commit |-> NoStr]

\* A container directory with no project file in it.
NoContainer == <<>>

Init ==
    /\ src = NoFiles
    /\ companion = NoFiles
    /\ genFrom = [p \in Paths |-> NoStr]
    /\ settings = Absent
    /\ modelFile = Absent
    /\ modelFrom = <<>>
    /\ repo = NoRepo
    /\ container = NoContainer
    /\ vault = NoPages
    /\ lastOp = [op |-> "none"]

\* The user saves, replaces or deletes the source file at p.
EditSource(p, s) ==
    /\ src[p] # s
    /\ src' = [src EXCEPT ![p] = s]
    /\ lastOp' = [op |-> "edit"]
    /\ UNCHANGED <<companion, genFrom, settings, modelFile, modelFrom, vault, repo, container>>

\* `igu <dir>`: walkAndGenerate over the tree (main.go directory mode).
Walk ==
    LET r == walkAndGenerate(src, companion)
    IN /\ companion' = r.disk
       /\ genFrom' = [p \in DOMAIN genFrom |-> IF p \in Range(r.wrote) THEN src[p].bytes ELSE genFrom[p]]
       /\ lastOp' = [op |-> "walk", again |-> lastOp.op = "walk",
                     written |-> r.written, errs |-> r.errs, wrote |-> r.wrote]
       /\ UNCHANGED <<src, settings, modelFile, modelFrom, vault, repo, container>>

\* validateEvidenceBundleV2 on the bundle read back from p's companion.
Validate(p) ==
    /\ companion[p] \notin {Absent, Corrupt}
    /\ lastOp' = [op |-> "validate", path |-> p,
                  res |-> validateEvidenceBundleV2(companion[p], src)]
    /\ UNCHANGED <<src, companion, genFrom, settings, modelFile, modelFrom, vault, repo, container>>

NextWalk ==
    \/ \E p \in Paths, s \in Sources \cup {Absent} : EditSource(p, s)
    \/ Walk
    \/ \E p \in Paths : Validate(p)

SpecWalk == Init /\ [][NextWalk]_vars

(***************************************************************************)
(* Claims about the walk and validation, checked under SpecWalk            *)
(***************************************************************************)
IsBundle(doc) == doc \notin {Absent, Corrupt, Unwritable}

\* C1: when the walk is run twice in a row over sources whose bytes did not change
\* in between, the second run writes nothing: it reports written = 0 and leaves
\* every companion file untouched.
C1_SecondWalkWritesNothing ==
    (lastOp.op = "walk" /\ lastOp.again) => (lastOp.written = 0 /\ lastOp.wrote = <<>>)

\* C2: a bundle built from source file F validates as stale exactly when the bytes
\* of F are no longer the bytes it was generated from, and as ok when they are; so
\* it is stale after any change of F and ok again once regenerated from the changed F.
C2_StaleIffSourceChanged ==
    \A p \in Paths :
        (IsBundle(companion[p]) /\ src[p] # Absent) =>
            validateEvidenceBundleV2(companion[p], src) =
                (IF src[p].bytes = genFrom[p] THEN "ok" ELSE "stale")

\* C2 witness: a validation has just reported a bundle stale after its source was
\* changed, while the bundle of another file, regenerated by the last walk, is ok.
C2_Witness ==
    /\ lastOp.op = "validate"
    /\ lastOp.res = "stale"
    /\ src[lastOp.path] # Absent
    /\ src[lastOp.path].bytes # genFrom[lastOp.path]
    /\ \E q \in Paths \ {lastOp.path} :
          /\ IsBundle(companion[q])
          /\ src[q] # Absent
          /\ validateEvidenceBundleV2(companion[q], src) = "ok"

(***************************************************************************)
(* Steps on the bundles and the system model (main.go, internal/model)     *)
(***************************************************************************)
\* createEvidenceBundleV2(filePath): read and hash the file, parse it, build the bundle.
createEvidenceBundleV2(filePath, tree) ==
    IF tree[filePath] \in {Absent, Unreadable} THEN ReadError
    ELSE IF ~tree[filePath].parses THEN ParseError
    ELSE buildBundle(filePath, Sha256Hex(tree[filePath].bytes), tree[filePath])

\* writeEvidenceBundleV2: the companion at <bundle.File.Path>.evidence.yaml now
\* decodes to the bundle.
writeEvidenceBundleV2(bundle, disk) == [disk EXCEPT ![bundle.file.path] = bundle]

\* File p is saved with the bytes of s and `iguana <p>` is run on it.  The step is
\* the run that succeeds: a file that cannot be read or parsed ends the command in
\* log.Fatal with nothing written.
AnalyzeFile(p, s) ==
    LET tree == [src EXCEPT ![p] = s]
        bundle == createEvidenceBundleV2(p, tree)
    IN /\ bundle \notin {ReadError, ParseError}
       /\ companion[p] # bundle
       /\ src' = tree
       /\ companion' = writeEvidenceBundleV2(bundle, companion)
       /\ genFrom' = [genFrom EXCEPT ![p] = s.bytes]
       /\ lastOp' = [op |-> "analyze"]
       /\ UNCHANGED <<settings, modelFile, modelFrom, vault, repo, container>>

\* File p is deleted together with its companion.
RemoveFile(p) ==
    /\ companion[p] # Absent
    /\ src' = [src EXCEPT ![p] = Absent]
    /\ companion' = [companion EXCEPT ![p] = Absent]
    /\ genFrom' = [genFrom EXCEPT ![p] = NoStr]
    /\ lastOp' = [op |-> "edit"]
    /\ UNCHANGED <<settings, modelFile, modelFrom, vault, repo, container>>

\* `iguana system-model <root>`: generate, and write the model unless generation failed.
SystemModelCmd(infer) ==
    LET r == GenerateSystemModel(companion, settings, infer)
    IN /\ modelFile' = IF r.err = "none" THEN WriteSystemModel(r.model) ELSE modelFile
       /\ modelFrom' = IF r.err = "none" THEN loadEvidenceBundles(companion, settings).bundles
                       ELSE modelFrom
       /\ lastOp' = [op |-> "system-model", err |-> r.err, inferred |-> r.inferred,
                     providerFailed |-> r.inferred /\ infer = InferError]
       /\ UNCHANGED <<src, companion, genFrom, settings, vault, repo, container>>

\* SystemModelUpToDate(root, outputPath) is asked.
UpToDateCmd ==
    /\ lastOp' = [op |-> "up-to-date"] @@ SystemModelUpToDate(companion, settings, modelFile)
    /\ UNCHANGED <<src, companion, genFrom, settings, modelFile, modelFrom, vault, repo, container>>

\* The model file is deleted, or overwritten with bytes that do not decode.
LoseModel(to) ==
    /\ modelFile # to
    /\ modelFile' = to
    /\ modelFrom' = <<>>
    /\ lastOp' = [op |-> "edit"]
    /\ UNCHANGED <<src, companion, genFrom, settings, vault, repo, container>>

NextModel ==
    \/ \E p \in Paths, s \in Sources : AnalyzeFile(p, s)
    \/ \E p \in Paths : RemoveFile(p)
    \/ \E infer \in Replies \cup {InferError} : SystemModelCmd(infer)
    \/ UpToDateCmd
    \/ \E to \in {Absent, Corrupt} : LoseModel(to)

SpecModel == Init /\ [][NextModel]_vars

(***************************************************************************)
(* Claims about the system model, checked under SpecModel                  *)
(***************************************************************************)
\* The bundles a load of the directory yields now.
LoadedNow == loadEvidenceBundles(companion, settings).bundles

PathsOf(bundles) == {bundles[i].file.path : i \in DOMAIN bundles}

\* Every evidence reference string of a system model.
AllRefs(m) ==
    UNION ({Range(m.inventory.packages[i].evidence_refs) : i \in DOMAIN m.inventory.packages}
           \cup {Range(m.inventory.entrypoints[i].evidence_refs) : i \in DOMAIN m.inventory.entrypoints}
           \cup {Range(m.state_domains[i].evidence_refs) : i \in DOMAIN m.state_domains}
           \cup {Range(m.effects[i].evidence_refs) : i \in DOMAIN m.effects}
           \cup {Range(m.concurrency_domains[i].evidence_refs) : i \in DOMAIN m.concurrency_domains}
           \cup {Range(m.trust_zones[i].evidence_refs) : i \in DOMAIN m.trust_zones}
           \cup {Range(m.boundaries.network.outbound[i].evidence_refs) :
                    i \in DOMAIN m.boundaries.network.outbound}
           \cup UNION {{Range(m.boundaries.persistence[i].writers[j].evidence_refs) :
                           j \in DOMAIN m.boundaries.persistence[i].writers} :
                       i \in DOMAIN m.boundaries.persistence})

\* C3: the up-to-date check answers true exactly when at least one bundle is loaded,
\* the model file can be read and its stored bundle_set_sha256 equals the hash of the
\* loaded bundles; with no bundles, or a missing or unreadable model, it answers
\* false and reports no error.
C3_UpToDateExactly ==
    lastOp.op = "up-to-date" =>
        LET loaded == loadEvidenceBundles(companion, settings)
            readable == IsBundle(modelFile)
        IN /\ lastOp.upToDate <=>
                 /\ loaded.err = "none"
                 /\ Len(loaded.bundles) >= 1
                 /\ readable
                 /\ modelFile.inputs.bundle_set_sha256 = computeBundleSetHash(loaded.bundles)
           /\ (loaded.err = "none" /\ (Len(loaded.bundles) = 0 \/ ~readable)) =>
                 (~lastOp.upToDate /\ lastOp.err = "none")

\* C3 witness: the check has answered true for a model written from the bundles present.
C3_Witness ==
    /\ lastOp.op = "up-to-date"
    /\ lastOp.upToDate
    /\ Len(LoadedNow) >= 1

C5_HashPermutationInvariant ==
    \A order \in Perms(Range(LoadedNow)) :
        computeBundleSetHash(order) = computeBundleSetHash(LoadedNow)

\* C5 witness: at least two bundles are loaded, so there is an order other than the
\* sorted one.
C5_Witness ==
    /\ Len(LoadedNow) >= 2
    /\ \E order \in Perms(Range(LoadedNow)) : order # LoadedNow

\* A reference of one of the three shapes over a path of the tree.
IsPlainRef(r) ==
    \E p \in Paths :
        LET base == S_bundle_colon \o p
        IN \/ r = base
           \/ HasPrefix(r, base \o <<"#", "s", "y", "m", "b", "o", "l", ":">>) /\ Len(r) > Len(base) + 8
           \/ HasPrefix(r, base \o <<"#">> \o S_signal_colon) /\ Len(r) > Len(base) + 8

\* C6: every evidence reference of the written system model is bundle:<path>,
\* bundle:<path>#symbol:<name> or bundle:<path>#signal:<name>, with no version suffix.
C6_RefsHaveSpecShape ==
    IsBundle(modelFile) => \A r \in AllRefs(modelFile) : IsPlainRef(r)

\* C7: for every bundle the model was generated from, the string bundle:<path> of
\* its file is one of the model's evidence references.
C7_EveryBundleReferenced ==
    IsBundle(modelFile) =>
        \A i \in DOMAIN modelFrom : (S_bundle_colon \o modelFrom[i].file.path) \in AllRefs(modelFile)

\* The (kind, path) pairs the bundles call for: one per bundle and true signal among
\* db_calls, fs_reads, fs_writes and net_calls.
ExpectedEffects(bundles) ==
    {<<S_db_write, bundles[i].file.path>> : i \in {j \in DOMAIN bundles : bundles[j].signals.db_calls}}
    \cup {<<S_fs_read, bundles[i].file.path>> : i \in {j \in DOMAIN bundles : bundles[j].signals.fs_reads}}
    \cup {<<S_fs_write, bundles[i].file.path>> : i \in {j \in DOMAIN bundles : bundles[j].signals.fs_writes}}
    \cup {<<S_net_call, bundles[i].file.path>> : i \in {j \in DOMAIN bundles : bundles[j].signals.net_calls}}

\* C8: the effects of the written model are exactly one entry per bundle and true
\* signal among db_calls, fs_reads, fs_writes, net_calls, of kind db_write, fs_read,
\* fs_write, net_call respectively and with via the bundle's path, and nothing else.
C8_EffectsExactlyTrueSignals ==
    IsBundle(modelFile) =>
        /\ {<<modelFile.effects[i].kind, modelFile.effects[i].via>> : i \in DOMAIN modelFile.effects}
              = ExpectedEffects(modelFrom)
        /\ Len(modelFile.effects) = Cardinality(ExpectedEffects(modelFrom))

\* C8 witness: a model whose effects show all four kinds, generated from bundles one
\* of which also has the concurrency signal.
C8_Witness ==
    /\ IsBundle(modelFile)
    /\ {modelFile.effects[i].kind : i \in DOMAIN modelFile.effects}
          = {S_db_write, S_fs_read, S_fs_write, S_net_call}
    /\ \E i \in DOMAIN modelFrom : modelFrom[i].signals.concurrency

\* The package of the bundle at path via among bundles.
PackageAt(via, bundles) ==
    (CHOOSE b \in Range(bundles) : b.file.path = via).package.name

\* C9: each effect's domain is the smallest id among the state domains whose owners
\* include the package of the bundle at effect.via, and is blank when no domain
\* lists that package.
C9_EffectDomainIsFirstOwner ==
    IsBundle(modelFile) =>
        \A i \in DOMAIN modelFile.effects :
            LET e == modelFile.effects[i]
                owning == {d \in Range(modelFile.state_domains) :
                              PackageAt(e.via, modelFrom) \in Range(d.owners)}
            IN IF owning = {} THEN e.domain = NoStr
               ELSE /\ e.domain \in {d.id : d \in owning}
                    /\ \A d \in owning : StrLeq(e.domain, d.id)

\* C9 witness: a model with an effect of a package that two domains own, and an
\* effect whose package no domain owns.
C9_Witness ==
    /\ IsBundle(modelFile)
    /\ \E i \in DOMAIN modelFile.effects :
          Cardinality({d \in Range(modelFile.state_domains) :
                          PackageAt(modelFile.effects[i].via, modelFrom) \in Range(d.owners)}) >= 2
    /\ \E i \in DOMAIN modelFile.effects : modelFile.effects[i].domain = NoStr
    /\ \E i \in DOMAIN modelFile.effects : modelFile.effects[i].domain # NoStr

NonDecreasing(keys) == \A i \in 1..(Len(keys) - 1) : ~KeyLess(keys[i + 1], keys[i])

\* The sequences of an inventory are sorted: packages by name, and the files,
\* imports and evidence_refs of each package.
InventorySorted(inv) ==
    /\ NonDecreasing([i \in DOMAIN inv.packages |-> <<inv.packages[i].name>>])
    /\ \A i \in DOMAIN inv.packages :
          /\ NonDecreasing([k \in DOMAIN inv.packages[i].files |-> <<inv.packages[i].files[k]>>])
          /\ NonDecreasing([k \in DOMAIN inv.packages[i].imports |-> <<inv.packages[i].imports[k]>>])
          /\ NonDecreasing([k \in DOMAIN inv.packages[i].evidence_refs |->
                               <<inv.packages[i].evidence_refs[k]>>])

EffectsSorted(effects) ==
    NonDecreasing([i \in DOMAIN effects |-> <<effects[i].kind, effects[i].via>>])

SortedById(seq) == NonDecreasing([i \in DOMAIN seq |-> <<seq[i].id>>])

\* C11: every sequence of the written system model is in non-decreasing order of
\* its key: packages by name, each package's files, imports and evidence_refs,
\* effects by (kind, via), concurrency domains, state domains and trust zones by
\* id, open questions by question text; and the sections built from the bundles
\* come out sorted for every order in which the bundles are handed over.
C11_SequencesSorted ==
    /\ IsBundle(modelFile) =>
          /\ InventorySorted(modelFile.inventory)
          /\ EffectsSorted(modelFile.effects)
          /\ SortedById(modelFile.concurrency_domains)
          /\ SortedById(modelFile.state_domains)
          /\ SortedById(modelFile.trust_zones)
          /\ NonDecreasing([i \in DOMAIN modelFile.open_questions |->
                               <<modelFile.open_questions[i].question>>])
    /\ \A order \in Perms(Range(LoadedNow)) :
          /\ InventorySorted(buildInventory(order))
          /\ EffectsSorted(buildEffects(order))
          /\ SortedById(buildConcurrencyDomains(order))

\* C11 witness: a written model of two packages whose effects were appended out of
\* order, with two state domains, two trust zones and two open questions that the
\* provider listed out of order.
C11_Witness ==
    /\ IsBundle(modelFile)
    /\ lastOp.op = "system-model"
    /\ Len(modelFile.inventory.packages) >= 2
    /\ ~EffectsSorted(AppendedEffects(modelFrom))
    /\ Len(modelFile.state_domains) >= 2
    /\ Len(modelFile.trust_zones) >= 2
    /\ Len(modelFile.open_questions) >= 2

\* The stand-in digest tells apart the byte strings of the catalogue.
DigestsDistinct ==
    \A s, u \in Sources : s.bytes # u.bytes => Sha256Hex(s.bytes) # Sha256Hex(u.bytes)

\* C23: every state domain and every trust zone of the system model on disk has at
\* least one entry in its evidence_refs, whatever owners or packages the provider
\* named for it.
C23_InferredHaveEvidence ==
    modelFile \notin {Absent, Corrupt} =>
        /\ \A i \in DOMAIN modelFile.state_domains : Len(modelFile.state_domains[i].evidence_refs) > 0
        /\ \A i \in DOMAIN modelFile.trust_zones : Len(modelFile.trust_zones[i].evidence_refs) > 0

\* C30: linking effects to state domains changes nothing but the domain field: the
\* effects of the written model are those buildEffects built from the loaded
\* bundles, as many, in the same order, each with the same kind, via and
\* evidence_refs, and so still sorted by (kind, via).
C30_LinkageChangesDomainOnly ==
    IsBundle(modelFile) =>
        LET built == buildEffects(modelFrom)
            linked == modelFile.effects
        IN /\ Len(linked) = Len(built)
           /\ \A i \in DOMAIN built :
                  /\ linked[i].kind = built[i].kind
                  /\ linked[i].via = built[i].via
                  /\ linked[i].evidence_refs = built[i].evidence_refs
                  /\ built[i].domain = NoStr
           /\ EffectsSorted(linked)

\* C30 witness: a written model with two effects or more, one linked to a domain
\* and one left without.
C30_Witness ==
    /\ IsBundle(modelFile)
    /\ lastOp.op = "system-model"
    /\ Len(modelFile.effects) >= 2
    /\ \E i \in DOMAIN modelFile.effects : modelFile.effects[i].domain # NoStr
    /\ \E i \in DOMAIN modelFile.effects : modelFile.effects[i].domain = NoStr

(***************************************************************************)
(* The vault (internal/export): a system model projected to markdown pages *)
(*                                                                         *)
(* A page is the sequence of its lines, each ended by "\n" in the file.    *)
(***************************************************************************)
\* The characters ` and U+2014, each held as one element of a string.
C_backtick == "BACKTICK"
C_emdash == "EMDASH"

S_arrow == <<" ", "→", " ">>

\* strings.ReplaceAll(s, "/", "-") followed by strings.ReplaceAll(s, ".", "-")
ReplaceSeparators(s) == [i \in DOMAIN s |-> IF s[i] \in {"/", "."} THEN "-" ELSE s[i]]

\* strings.ReplaceAll(s, "--", "-"): non-overlapping matches from the left.
RECURSIVE ReplaceDoubleDash(_)
ReplaceDoubleDash(s) ==
    IF Len(s) < 2 THEN s
    ELSE IF s[1] = "-" /\ s[2] = "-" THEN <<"-">> \o ReplaceDoubleDash(SubSeq(s, 3, Len(s)))
    ELSE <<s[1]>> \o ReplaceDoubleDash(Tail(s))

\* for strings.Contains(s, "--") { s = strings.ReplaceAll(s, "--", "-") }
RECURSIVE CollapseDashes(_)
CollapseDashes(s) ==
    IF Contains(s, <<"-", "-">>) THEN CollapseDashes(ReplaceDoubleDash(s)) ELSE s

\* strings.Trim(s, "-")
RECURSIVE TrimDashes(_)
TrimDashes(s) ==
    IF Len(s) > 0 /\ s[1] = "-" THEN TrimDashes(Tail(s))
    ELSE IF Len(s) > 0 /\ s[Len(s)] = "-" THEN TrimDashes(SubSeq(s, 1, Len(s) - 1))
    ELSE s

\* A sanitizer that maps / and . to - but neither collapses nor trims.
sanitizeFilename_ReplaceOnly(s) == ReplaceSeparators(s)

\* sanitizeFilename: / and . become -, runs of - collapse to one, outer - are trimmed.
sanitizeFilename(s) == TrimDashes(CollapseDashes(ReplaceSeparators(s)))

\* frontmatter: the YAML block with the tags in sorted order, then an empty line.
frontmatter(tags) ==
    LET sorted == SortStrings(tags)
    IN <<<<"-", "-", "-">>, <<"t", "a", "g", "s", ":">>>>
       \o [i \in DOMAIN sorted |-> <<" ", " ", "-", " ">> \o sorted[i]]
       \o <<<<"-", "-", "-">>, <<>>>>

\* confidenceTag, the confidence counted in hundredths.
confidenceTag(c) ==
    IF c >= 80 THEN <<"c", "o", "n", "f", "i", "d", "e", "n", "c", "e", "-", "h", "i", "g", "h">>
    ELSE IF c >= 70 THEN <<"c", "o", "n", "f", "i", "d", "e", "n", "c", "e", "-", "m", "e", "d", "i", "u", "m">>
    ELSE <<"c", "o", "n", "f", "i", "d", "e", "n", "c", "e", "-", "l", "o", "w">>

\* domainEffects: the effects whose domain is domainID, in order.
domainEffects(domainID, effects) == SelectSeq(effects, LAMBDA e : e.domain = domainID)

\* findCycles, the depth-first search: color 0 is unvisited, 1 on the stack, 2 done.
\* st holds color, path and the cycles found so far.
RECURSIVE dfs(_, _, _)
RECURSIVE dfsNeighbors(_, _, _)
dfs(node, st, graph) ==
    IF st.color[node] = 2 THEN st
    ELSE IF st.color[node] = 1
         THEN LET at == {k \in DOMAIN st.path : st.path[k] = node}
              IN IF at = {} THEN st
                 ELSE LET i == CHOOSE k \in at : \A j \in at : k <= j
                          cycleNodes == Append(SubSeq(st.path, i, Len(st.path)), node)
                      IN [st EXCEPT !.cycles = Append(@, Join(cycleNodes, S_arrow))]
    ELSE LET entered == [st EXCEPT !.color[node] = 1, !.path = Append(@, node)]
             left == dfsNeighbors(SortStrings(graph[node]), entered, graph)
         IN [left EXCEPT !.path = SubSeq(@, 1, Len(@) - 1), !.color[node] = 2]

\* The loop over the sorted neighbors: only known packages are traversed.
dfsNeighbors(neighbors, st, graph) ==
    IF Len(neighbors) = 0 THEN st
    ELSE dfsNeighbors(Tail(neighbors),
                      IF neighbors[1] \in DOMAIN graph THEN dfs(neighbors[1], st, graph) ELSE st,
                      graph)

\* The loop over the sorted nodes: a search starts at each node still unvisited.
RECURSIVE dfsNodes(_, _, _)
dfsNodes(nodes, st, graph) ==
    IF Len(nodes) = 0 THEN st
    ELSE dfsNodes(Tail(nodes),
                  IF st.color[nodes[1]] = 0 THEN dfs(nodes[1], st, graph) ELSE st,
                  graph)

\* The adjacency list of findCycles: a package with imports maps to them, the last
\* entry of a name winning; a package without imports has no neighbors.
ImportGraph(packages) ==
    [n \in {packages[i].name : i \in DOMAIN packages} |->
        LET at == {i \in DOMAIN packages : packages[i].name = n /\ Len(packages[i].imports) > 0}
        IN IF at = {} THEN <<>>
           ELSE packages[CHOOSE i \in at : \A j \in at : j <= i].imports]

\* A search started at the first node only, leaving the other unvisited nodes out.
findCycles_FirstNodeOnly(packages) ==
    LET graph == ImportGraph(packages)
        nodes == SortedOfSet(DOMAIN graph)
        start == [color |-> [n \in DOMAIN graph |-> 0], path |-> <<>>, cycles |-> <<>>]
    IN dfsNodes(IF Len(nodes) = 0 THEN nodes ELSE <<nodes[1]>>, start, graph).cycles

\* findCycles: one "a -> b -> a" string per back edge met, with the arrow U+2192.
findCycles(packages) ==
    LET graph == ImportGraph(packages)
        nodes == SortedOfSet(DOMAIN graph)
        start == [color |-> [n \in DOMAIN graph |-> 0], path |-> <<>>, cycles |-> <<>>]
    IN dfsNodes(nodes, start, graph).cycles

\* The in-degree rows sorted by the package name alone and never cut.
inDegreeCounts_ByName(packages) ==
    LET imported == UNION {Range(packages[i].imports) : i \in DOMAIN packages}
        slots == UNION {{<<i, k>> : k \in DOMAIN packages[i].imports} : i \in DOMAIN packages}
        inDegree(n) == Cardinality({at \in slots : packages[at[1]].imports[at[2]] = n})
        names == SortedOfSet(imported)
    IN [r \in DOMAIN names |-> [name |-> names[r], count |-> inDegree(names[r])]]

\* buildRiskReport, the in-degree part: inDegree[imp]++ for every import of every
\* package, the map's entries sorted by descending count, then ascending name, and
\* the first 10 kept.
inDegreeCounts(packages) ==
    LET imported == UNION {Range(packages[i].imports) : i \in DOMAIN packages}
        slots == UNION {{<<i, k>> : k \in DOMAIN packages[i].imports} : i \in DOMAIN packages}
        inDegree(n) == Cardinality({at \in slots : packages[at[1]].imports[at[2]] = n})
        counts == {[name |-> n, count |-> inDegree(n)] : n \in imported}
        before(c) == {d \in counts : d.count > c.count \/ (d.count = c.count /\ StrLess(d.name, c.name))}
        sorted == [r \in 1..Cardinality(counts) |-> CHOOSE c \in counts : Cardinality(before(c)) + 1 = r]
    IN IF Len(sorted) > 10 THEN SubSeq(sorted, 1, 10) ELSE sorted

\* buildRiskReport, the write-domains part: per domain the via of each fs_write or
\* db_write effect with a domain, in the order of the effects.
writeDomains(effects) ==
    LET writes == SelectSeq(effects, LAMBDA e : e.kind \in {S_fs_write, S_db_write} /\ e.domain # NoStr)
    IN [id \in {writes[i].domain : i \in DOMAIN writes} |->
           LET of == SelectSeq(writes, LAMBDA e : e.domain = id)
           IN [i \in DOMAIN of |-> of[i].via]]

\* buildRiskReport: risk.md with its three sections.
buildRiskReport(sys) ==
    LET counts == inDegreeCounts(sys.inventory.packages)
        wd == writeDomains(sys.effects)
        domainIDs == SortedOfSet(DOMAIN wd)
        cycles == findCycles(sys.inventory.packages)
    IN frontmatter(<<<<"i", "g", "u", "a", "n", "a", "/", "r", "i", "s", "k">>>>)
       \o <<<<"#", " ", "R", "i", "s", "k", " ", "R", "e", "p", "o", "r", "t">>, <<>>>>
       \o <<<<"#", "#", " ", "T", "o", "p", " ", "P", "a", "c", "k", "a", "g", "e", "s", " ", "b", "y", " ", "I", "n", "-", "D", "e", "g", "r", "e", "e">>, <<>>>>
       \o (IF Len(counts) > 0
           THEN <<<<"|", " ", "P", "a", "c", "k", "a", "g", "e", " ", "|", " ", "D", "e", "p", "e", "n", "d", "e", "n", "t", "s", " ", "|">>, <<"|", "-", "-", "-", "-", "-", "-", "-", "-", "-", "|", "-", "-", "-", "-", "-", "-", "-", "-", "-", "-", "-", "-", "|">>>>
                \o [i \in DOMAIN counts |->
                       <<"|", " ">> \o counts[i].name \o <<" ", "|", " ">> \o Itoa(counts[i].count) \o <<" ", "|">>]
           ELSE <<>>)
       \o << <<>> >>
       \o <<<<"#", "#", " ", "D", "o", "m", "a", "i", "n", "s", " ", "w", "i", "t", "h", " ", "W", "r", "i", "t", "e", " ", "E", "f", "f", "e", "c", "t", "s">>, <<>>>>
       \o (IF DOMAIN wd # {}
           THEN <<<<"|", " ", "D", "o", "m", "a", "i", "n", " ", "|", " ", "W", "r", "i", "t", "e", "r", "s", " ", "|">>, <<"|", "-", "-", "-", "-", "-", "-", "-", "-", "|", "-", "-", "-", "-", "-", "-", "-", "-", "-", "-", "|">>>>
                \o [i \in DOMAIN domainIDs |->
                       <<"|", " ", "[", "[", "d", "o", "m", "a", "i", "n", "s", "/">> \o sanitizeFilename(domainIDs[i]) \o <<"|">> \o domainIDs[i]
                       \o <<"]", "]", " ", "|", " ">> \o Join(wd[domainIDs[i]], <<",", " ">>) \o <<" ", "|">>]
           ELSE <<>>)
       \o << <<>> >>
       \o <<<<"#", "#", " ", "I", "m", "p", "o", "r", "t", " ", "C", "y", "c", "l", "e", "s">>, <<>>>>
       \o (IF Len(cycles) = 0 THEN <<<<"_", "N", "o", "n", "e", " ", "f", "o", "u", "n", "d", ".", "_">>>>
           ELSE [i \in DOMAIN cycles |-> <<"-", " ">> \o cycles[i]])

\* The edges buildDependencyGraph appends: per package, in order, one per import.
RECURSIVE ImportEdges(_)
ImportEdges(packages) ==
    IF Len(packages) = 0 THEN <<>>
    ELSE [k \in DOMAIN packages[1].imports |-> [from |-> packages[1].name, to |-> packages[1].imports[k]]]
         \o ImportEdges(Tail(packages))

\* A dependency page that shows only the first import of each package.
buildDependencyGraph_FirstImportOnly(sys) ==
    LET packages == sys.inventory.packages
        importing == SelectSeq(packages, LAMBDA pkg : Len(pkg.imports) > 0)
        edges == [i \in DOMAIN importing |-> [from |-> importing[i].name, to |-> importing[i].imports[1]]]
    IN frontmatter(<<<<"i", "g", "u", "a", "n", "a", "/", "g", "r", "a", "p", "h">>>>)
       \o <<<<"#", " ", "D", "e", "p", "e", "n", "d", "e", "n", "c", "y", " ", "G", "r", "a", "p", "h">>, <<>>>>
       \o (IF Len(edges) = 0 THEN <<<<"_", "N", "o", " ", "p", "a", "c", "k", "a", "g", "e", "s", ".", "_">>>>
           ELSE <<<<C_backtick, C_backtick, C_backtick>> \o <<"m", "e", "r", "m", "a", "i", "d">>, <<"g", "r", "a", "p", "h", " ", "L", "R">>>>
                \o [i \in DOMAIN edges |-> <<" ", " ">> \o edges[i].from \o <<" ", "-", "-", ">", " ">> \o edges[i].to]
                \o <<<<C_backtick, C_backtick, C_backtick>>>>)

\* buildDependencyGraph: graphs/dependencies.md; with no import edge the page says
\* "_No packages._", else the edges sorted by (from, to) in a Mermaid fence.
buildDependencyGraph(sys) ==
    LET appended == ImportEdges(sys.inventory.packages)
        edges == SortOn(appended, [e \in Range(appended) |-> <<e.from, e.to>>])
    IN frontmatter(<<<<"i", "g", "u", "a", "n", "a", "/", "g", "r", "a", "p", "h">>>>)
       \o <<<<"#", " ", "D", "e", "p", "e", "n", "d", "e", "n", "c", "y", " ", "G", "r", "a", "p", "h">>, <<>>>>
       \o (IF Len(edges) = 0 THEN <<<<"_", "N", "o", " ", "p", "a", "c", "k", "a", "g", "e", "s", ".", "_">>>>
           ELSE <<<<C_backtick, C_backtick, C_backtick, "m", "e", "r", "m", "a", "i", "d">>, <<"g", "r", "a", "p", "h", " ", "L", "R">>>>
                \o [i \in DOMAIN edges |-> <<" ", " ">> \o edges[i].from \o <<" ", "-", "-", ">", " ">> \o edges[i].to]
                \o <<<<C_backtick, C_backtick, C_backtick>>>>)

\* fmt's %.2f for a value counted in hundredths.
Fmt2f(c) == Itoa(c \div 100) \o <<".">> \o Itoa((c % 100) \div 10) \o Itoa(c % 10)

\* "- " + item + "\n" for each item.
Bullets(items) == [i \in DOMAIN items |-> <<"-", " ">> \o items[i]]

\* buildOverviewPage: index.md, one wiki link per state domain.
buildOverviewPage(sys) ==
    frontmatter(<<<<"i", "g", "u", "a", "n", "a", "/", "i", "n", "d", "e", "x">>>>)
    \o <<<<"#", " ", "S", "y", "s", "t", "e", "m", " ", "M", "o", "d", "e", "l">>, <<>>>>
    \o <<<<"-", " ", "*", "*", "G", "e", "n", "e", "r", "a", "t", "e", "d", "*", "*", ":", " ">> \o sys.generated_at>>
    \o <<<<"-", " ", "*", "*", "B", "u", "n", "d", "l", "e", " ", "h", "a", "s", "h", "*", "*", ":", " ", C_backtick>> \o sys.inputs.bundle_set_sha256 \o <<C_backtick>>, <<>>>>
    \o <<<<"#", "#", " ", "S", "t", "a", "t", "e", " ", "D", "o", "m", "a", "i", "n", "s">>, <<>>>>
    \o [i \in DOMAIN sys.state_domains |->
           <<"-", " ", "[", "[", "d", "o", "m", "a", "i", "n", "s", "/">> \o sanitizeFilename(sys.state_domains[i].id) \o <<"|">>
           \o sys.state_domains[i].id \o <<"]", "]", " ", C_emdash, " ">> \o sys.state_domains[i].description]

\* buildDomainPage: domains/<id>.md of one state domain.
buildDomainPage(d, effects) ==
    LET fx == domainEffects(d.id, effects)
    IN frontmatter(<<<<"s", "t", "a", "t", "e", "-", "d", "o", "m", "a", "i", "n">>, confidenceTag(d.confidence)>>)
       \o <<<<"#", " ">> \o d.id, <<>>>>
       \o <<d.description, <<>>>>
       \o <<<<"*", "*", "C", "o", "n", "f", "i", "d", "e", "n", "c", "e", "*", "*", ":", " ">> \o Fmt2f(d.confidence)>>
       \o (IF Len(d.owners) > 0 THEN <<<<"*", "*", "O", "w", "n", "e", "r", "s", "*", "*", ":", " ">> \o Join(d.owners, <<",", " ">>)>> ELSE <<>>)
       \o (IF d.aggregate # NoStr THEN <<<<>>, <<"#", "#", " ", "A", "g", "g", "r", "e", "g", "a", "t", "e">>, <<>>, d.aggregate>> ELSE <<>>)
       \o (IF Len(d.representations) > 0
           THEN <<<<>>, <<"#", "#", " ", "R", "e", "p", "r", "e", "s", "e", "n", "t", "a", "t", "i", "o", "n", "s">>, <<>>>> \o Bullets(d.representations) ELSE <<>>)
       \o (IF Len(d.primary_mutators) > 0
           THEN <<<<>>, <<"#", "#", " ", "P", "r", "i", "m", "a", "r", "y", " ", "M", "u", "t", "a", "t", "o", "r", "s">>, <<>>>> \o Bullets(d.primary_mutators) ELSE <<>>)
       \o (IF Len(d.primary_readers) > 0
           THEN <<<<>>, <<"#", "#", " ", "P", "r", "i", "m", "a", "r", "y", " ", "R", "e", "a", "d", "e", "r", "s">>, <<>>>> \o Bullets(d.primary_readers) ELSE <<>>)
       \o (IF Len(fx) > 0
           THEN <<<<>>, <<"#", "#", " ", "E", "f", "f", "e", "c", "t", "s">>, <<>>, <<"|", " ", "K", "i", "n", "d", " ", "|", " ", "V", "i", "a", " ", "|">>, <<"|", "-", "-", "-", "-", "-", "-", "|", "-", "-", "-", "-", "-", "|">>>>
                \o [i \in DOMAIN fx |-> <<"|", " ">> \o fx[i].kind \o <<" ", "|", " ", C_backtick>> \o fx[i].via \o <<C_backtick, " ", "|">>]
           ELSE <<>>)
       \o (IF Len(d.evidence_refs) > 0
           THEN <<<<>>, <<"#", "#", " ", "E", "v", "i", "d", "e", "n", "c", "e">>, <<>>>> \o Bullets(d.evidence_refs) ELSE <<>>)

\* The rows of the persistence table: per boundary, in order, one per writer.
RECURSIVE PersistenceRows(_)
PersistenceRows(persistence) ==
    IF Len(persistence) = 0 THEN <<>>
    ELSE [k \in DOMAIN persistence[1].writers |->
             <<"|", " ">> \o persistence[1].kind \o <<" ", "|", " ", C_backtick>> \o persistence[1].writers[k].file \o <<C_backtick, " ", "|">>]
         \o PersistenceRows(Tail(persistence))

\* buildBoundaryMap: boundaries.md; a missing network boundary is one without outbound files.
buildBoundaryMap(sys) ==
    frontmatter(<<<<"i", "g", "u", "a", "n", "a", "/", "b", "o", "u", "n", "d", "a", "r", "i", "e", "s">>>>)
    \o <<<<"#", " ", "B", "o", "u", "n", "d", "a", "r", "i", "e", "s">>, <<>>>>
    \o (IF Len(sys.boundaries.persistence) > 0
        THEN <<<<"#", "#", " ", "P", "e", "r", "s", "i", "s", "t", "e", "n", "c", "e">>, <<>>, <<"|", " ", "K", "i", "n", "d", " ", "|", " ", "F", "i", "l", "e", " ", "|">>, <<"|", "-", "-", "-", "-", "-", "-", "|", "-", "-", "-", "-", "-", "-", "|">>>>
             \o PersistenceRows(sys.boundaries.persistence)
             \o << <<>> >>
        ELSE <<>>)
    \o (IF Len(sys.boundaries.network.outbound) > 0
        THEN <<<<"#", "#", " ", "N", "e", "t", "w", "o", "r", "k">>, <<>>, <<"|", " ", "F", "i", "l", "e", " ", "|">>, <<"|", "-", "-", "-", "-", "-", "-", "|">>>>
             \o [i \in DOMAIN sys.boundaries.network.outbound |->
                    <<"|", " ", C_backtick>> \o sys.boundaries.network.outbound[i].file \o <<C_backtick, " ", "|">>]
        ELSE <<>>)

S_general == <<"_", "_", "g", "e", "n", "e", "r", "a", "l", "_", "_">>

\* buildOpenQuestionsIndex: open-questions.md, the questions grouped by related
\* domain in sorted order, those without one under "General".
buildOpenQuestionsIndex(sys) ==
    LET key(q) == IF q.related_domain = NoStr THEN S_general ELSE q.related_domain
        keys == {key(sys.open_questions[i]) : i \in DOMAIN sys.open_questions}
        of(k) == LET in == SelectSeq(sys.open_questions, LAMBDA q : key(q) = k)
                 IN [i \in DOMAIN in |-> in[i].question]
        domainIDs == SortedOfSet(keys \ {S_general})
        section(id) == <<<<"#", "#", " ", "[", "[", "d", "o", "m", "a", "i", "n", "s", "/">> \o sanitizeFilename(id) \o <<"|">> \o id \o <<"]", "]">>, <<>>>>
                       \o Bullets(of(id)) \o << <<>> >>
        sections[n \in 0..Len(domainIDs)] ==
            IF n = 0 THEN <<>> ELSE sections[n - 1] \o section(domainIDs[n])
    IN frontmatter(<<<<"i", "g", "u", "a", "n", "a", "/", "o", "p", "e", "n", "-", "q", "u", "e", "s", "t", "i", "o", "n", "s">>>>)
       \o <<<<"#", " ", "O", "p", "e", "n", " ", "Q", "u", "e", "s", "t", "i", "o", "n", "s">>, <<>>>>
       \o sections[Len(domainIDs)]
       \o (IF S_general \in keys THEN <<<<"#", "#", " ", "G", "e", "n", "e", "r", "a", "l">>, <<>>>> \o Bullets(of(S_general)) ELSE <<>>)

S_index_md == <<"i", "n", "d", "e", "x", ".", "m", "d">>
S_boundaries_md == <<"b", "o", "u", "n", "d", "a", "r", "i", "e", "s", ".", "m", "d">>
S_risk_md == <<"r", "i", "s", "k", ".", "m", "d">>
S_open_questions_md == <<"o", "p", "e", "n", "-", "q", "u", "e", "s", "t", "i", "o", "n", "s", ".", "m", "d">>
S_graphs_dependencies_md == <<"g", "r", "a", "p", "h", "s", "/", "d", "e", "p", "e", "n", "d", "e", "n", "c", "i", "e", "s", ".", "m", "d">>
S_domains_slash == <<"d", "o", "m", "a", "i", "n", "s", "/">>
S_md == <<".", "m", "d">>

\* The path of the page GenerateKnowledgeBundle gives the state domain of that id.
DomainPagePath(id) == S_domains_slash \o sanitizeFilename(id) \o S_md

\* GenerateKnowledgeBundle: the pages map, path -> page.  The domain pages are
\* assigned in the order of sys.state_domains, so of two domains with one path the
\* later one keeps the key.
GenerateKnowledgeBundle(sys) ==
    LET fixed == {S_index_md, S_boundaries_md, S_risk_md, S_open_questions_md, S_graphs_dependencies_md}
        domainPaths == {DomainPagePath(sys.state_domains[i].id) : i \in DOMAIN sys.state_domains}
        last(p) == CHOOSE i \in DOMAIN sys.state_domains :
                      /\ DomainPagePath(sys.state_domains[i].id) = p
                      /\ \A j \in DOMAIN sys.state_domains :
                            DomainPagePath(sys.state_domains[j].id) = p => j <= i
    IN [p \in fixed \cup domainPaths |->
           IF p = S_index_md THEN buildOverviewPage(sys)
           ELSE IF p = S_boundaries_md THEN buildBoundaryMap(sys)
           ELSE IF p = S_risk_md THEN buildRiskReport(sys)
           ELSE IF p = S_open_questions_md THEN buildOpenQuestionsIndex(sys)
           ELSE IF p = S_graphs_dependencies_md THEN buildDependencyGraph(sys)
           ELSE buildDomainPage(sys.state_domains[last(p)], sys.effects)]

\* A write that appends to the file already there.
writeNote_Append(path, content, dir) ==
    [p \in DOMAIN dir \cup {path} |->
        IF p # path THEN dir[p]
        ELSE IF p \in DOMAIN dir THEN dir[p] \o content ELSE content]

\* writeNote: the file at path now holds content.
writeNote(path, content, dir) ==
    [p \in DOMAIN dir \cup {path} |-> IF p = path THEN content ELSE dir[p]]

\* The loop of WriteKnowledgeBundle over the remaining paths.
RECURSIVE writePages(_, _, _)
writePages(paths, pages, dir) ==
    IF Len(paths) = 0 THEN dir
    ELSE writePages(Tail(paths), pages, writeNote(paths[1], pages[paths[1]], dir))

\* WriteKnowledgeBundle: every page is written, in sorted path order, over what the
\* directory holds.
WriteKnowledgeBundle(bundle, dir) == writePages(SortedOfSet(DOMAIN bundle), bundle, dir)

\* GenerateObsidianVault(sys, outputDir): generate the pages, then write them.
GenerateObsidianVault(sys, dir) == WriteKnowledgeBundle(GenerateKnowledgeBundle(sys), dir)

(***************************************************************************)
(* Bounded inputs of the vault: the system models it is generated from     *)
(***************************************************************************)
PkgNameCatalog == << <<"a">>, <<"b">>, <<"c">>, <<"d">> >>

PkgNames == {PkgNameCatalog[i] : i \in 1..NumPkgNames}

\* A PackageEntry as buildInventory emits it: one file, the imports sorted.
PackageEntryOf(name, imports) ==
    [name |-> name,
     files |-> <<name \o <<"/", "f", ".", "g", "o">>>>,
     imports |-> SortedOfSet(imports),
     evidence_refs |-> <<evidenceRef(name \o <<"/", "f", ".", "g", "o">>, 2, NoStr)>>]

\* The inventory of the packages in present, each importing the packages imports[_]
\* gives it, sorted by name.
InventoryOf(present, imports) ==
    LET names == SortedOfSet(present)
    IN [packages |-> [i \in DOMAIN names |-> PackageEntryOf(names[i], imports[names[i]])],
        entrypoints |-> <<>>]

\* Every inventory over the package names: any packages present, each importing any
\* of the other packages present.
SmallInventories ==
    UNION {{InventoryOf(present, imports) :
               imports \in {g \in [present -> SUBSET present] : \A n \in present : n \notin g[n]}} :
           present \in SUBSET PkgNames}

\* Twelve packages a..l, where l imports the eleven others and a imports k; in the
\* second, k imports l as well.
Letters == << <<"a">>, <<"b">>, <<"c">>, <<"d">>, <<"e">>, <<"f">>,
              <<"g">>, <<"h">>, <<"i">>, <<"j">>, <<"k">>, <<"l">> >>

WideInventory(closed) ==
    InventoryOf(Range(Letters),
                [n \in Range(Letters) |->
                    IF n = <<"l">> THEN Range(Letters) \ {<<"l">>}
                    ELSE IF n = <<"a">> THEN {<<"k">>}
                    ELSE IF n = <<"k">> /\ closed THEN {<<"l">>}
                    ELSE {}])

Inventories == SmallInventories \cup {WideInventory(FALSE), WideInventory(TRUE)}

\* A state domain as mapStateDomains emits it, owned by one package.
StateDomainOf(id, owner, confidence) ==
    [id |-> id, description |-> <<"o", "f", " ">> \o owner, owners |-> <<owner>>,
     aggregate |-> IF confidence >= 80 THEN <<"T">> ELSE NoStr,
     representations |-> <<>>,
     primary_mutators |-> IF confidence >= 80 THEN <<<<"S", "e", "t">>>> ELSE <<>>,
     primary_readers |-> <<>>,
     evidence_refs |-> <<evidenceRef(owner \o <<"/", "f", ".", "g", "o">>, 2, NoStr)>>,
     confidence |-> confidence]

\* The state domains of a model, sorted by id: none; two whose ids differ in a
\* separator only; two plain ones; one.
DomainListCatalog ==
    << <<>>,
       <<StateDomainOf(<<"a", ".", "b">>, <<"a">>, 85), StateDomainOf(<<"a", "/", "b">>, <<"b">>, 75)>>,
       <<StateDomainOf(<<"a">>, <<"a">>, 90), StateDomainOf(<<"b", ".", "c">>, <<"b">>, 60)>>,
       <<StateDomainOf(<<"c">>, <<"c">>, 70)>> >>

DomainLists == {DomainListCatalog[i] : i \in 1..NumDomainLists}

\* A system model with that inventory and those state domains: per domain one
\* fs_write effect and one open question, and a question without a domain.
VaultModel(inventory, domains) ==
    [version |-> 1,
     generated_at |-> <<"t">>,
     inputs |-> [bundle_set_sha256 |-> Sha256Hex(<<"t">>)],
     inventory |-> inventory,
     state_domains |-> domains,
     boundaries |->
        [persistence |-> IF Len(domains) > 0
                         THEN <<[kind |-> <<"f", "s">>,
                                 writers |-> [i \in DOMAIN domains |->
                                                 [file |-> domains[i].owners[1] \o <<"/", "f", ".", "g", "o">>,
                                                  evidence_refs |-> <<>>]]]>>
                         ELSE <<>>,
         network |-> [outbound |-> <<>>]],
     effects |-> [i \in DOMAIN domains |->
                     [kind |-> S_fs_write, domain |-> domains[i].id,
                      via |-> domains[i].owners[1] \o <<"/", "f", ".", "g", "o">>, evidence_refs |-> <<>>]],
     concurrency_domains |-> <<>>,
     trust_zones |-> <<>>,
     open_questions |-> <<[question |-> <<"g", "?">>, related_domain |-> NoStr, missing_evidence |-> <<>>]>>
                        \o [i \in DOMAIN domains |->
                               [question |-> <<"q">> \o domains[i].id, related_domain |-> domains[i].id,
                                missing_evidence |-> <<>>]]]

VaultModels == {VaultModel(inv, domains) : inv \in Inventories, domains \in DomainLists}

(***************************************************************************)
(* Steps on the vault                                                      *)
(***************************************************************************)
InitVault ==
    /\ src = NoFiles
    /\ companion = NoFiles
    /\ genFrom = [p \in Paths |-> NoStr]
    /\ settings = Absent
    /\ modelFile \in VaultModels
    /\ modelFrom = <<>>
    /\ repo = NoRepo
    /\ container = NoContainer
    /\ vault = NoPages
    /\ lastOp = [op |-> "none"]

\* The vault is generated from the model on disk into the vault directory.
ExportVault ==
    LET written == GenerateObsidianVault(modelFile, vault)
    IN /\ vault' = written
       /\ lastOp' = [op |-> "vault", again |-> lastOp.op = "vault",
                     changed |-> written # vault,
                     created |-> DOMAIN written \ DOMAIN vault]
       /\ UNCHANGED <<src, companion, genFrom, settings, modelFile, modelFrom, repo, container>>

\* The model is generated anew and the provider names other state domains.
RenameDomains(domains) ==
    /\ modelFile.state_domains # domains
    /\ modelFile' = VaultModel(modelFile.inventory, domains)
    /\ lastOp' = [op |-> "edit"]
    /\ UNCHANGED <<src, companion, genFrom, settings, modelFrom, vault, repo, container>>

\* A vault run that is stopped after k of its pages were written: the process is
\* interrupted between two writes, or the write after them fails and
\* WriteKnowledgeBundle returns its error.
ExportVaultCancelled(k) ==
    LET bundle == GenerateKnowledgeBundle(modelFile)
        paths == SortedOfSet(DOMAIN bundle)
        left == writePages(SubSeq(paths, 1, k), bundle, vault)
    IN /\ k < Len(paths)
       /\ vault' = left
       /\ lastOp' = [op |-> "vault-cancelled",
                     asBegan |-> left = vault,
                     complete |-> left = WriteKnowledgeBundle(bundle, vault)]
       /\ UNCHANGED <<src, companion, genFrom, settings, modelFile, modelFrom, repo, container>>

NextVault ==
    \/ ExportVault
    \/ \E domains \in DomainLists : RenameDomains(domains)

SpecVault == InitVault /\ [][NextVault]_vars

\* Vault runs that may be stopped part-way, over the models of at most one package.
\* The directory is empty, or holds the vault written from an earlier model of the
\* same inventory.
InitCancel ==
    /\ src = NoFiles
    /\ companion = NoFiles
    /\ genFrom = [p \in Paths |-> NoStr]
    /\ settings = Absent
    /\ modelFile \in {m \in VaultModels : Len(m.inventory.packages) <= 1}
    /\ modelFrom = <<>>
    /\ repo = NoRepo
    /\ container = NoContainer
    /\ vault \in {NoPages} \cup {GenerateObsidianVault(VaultModel(modelFile.inventory, domains), NoPages) :
                                   domains \in DomainLists}
    /\ lastOp = [op |-> "none"]

NextCancel ==
    \/ ExportVault
    \/ \E k \in 0..6 : ExportVaultCancelled(k)

SpecCancel == InitCancel /\ [][NextCancel]_vars

(***************************************************************************)
(* Claims about the vault, checked under SpecVault                         *)
(***************************************************************************)
\* The lines of a page below the header line, up to the next "## " header.
SectionOf(page, header) ==
    LET at == CHOOSE i \in DOMAIN page : page[i] = header
        next == {j \in DOMAIN page : j > at /\ HasPrefix(page[j], <<"#", "#", " ">>)}
        end == IF next = {} THEN Len(page) ELSE (CHOOSE j \in next : \A k \in next : j <= k) - 1
    IN SubSeq(page, at + 1, end)

\* The import edges between packages of the inventory.
KnownEdges(packages) ==
    LET names == {packages[i].name : i \in DOMAIN packages}
    IN {e \in UNION {{<<packages[i].name, packages[i].imports[k]>> : k \in DOMAIN packages[i].imports} :
                     i \in DOMAIN packages} : e[2] \in names}

\* The packages reached from those of S over at most k more edges of E.
RECURSIVE ReachedIn(_, _, _)
ReachedIn(S, E, k) ==
    IF k = 0 THEN S
    ELSE ReachedIn(S \cup {e[2] : e \in {d \in E : d[1] \in S}}, E, k - 1)

\* The packages that lie on a directed cycle of the import graph.
OnCycle(packages) ==
    LET E == KnownEdges(packages)
    IN {n \in {packages[i].name : i \in DOMAIN packages} :
           n \in ReachedIn({e[2] : e \in {d \in E : d[1] = n}}, E, Len(packages))}

\* Whether a line is "- n1 -> n2 -> ... -> n1" (the arrow U+2192) along import edges.
IsCycleLine(line, packages) ==
    /\ HasPrefix(line, <<"-", " ">>)
    /\ LET words == Split(SubSeq(line, 3, Len(line)), " ")
           count == (Len(words) + 1) \div 2
       IN /\ Len(words) >= 3
          /\ Len(words) % 2 = 1
          /\ \A i \in 1..(count - 1) : words[2 * i] = "→"
          /\ words[1] = words[Len(words)]
          /\ \A i \in 1..(count - 1) : <<words[2 * i - 1], words[2 * i + 1]>> \in KnownEdges(packages)

\* C12: the Import Cycles section of the risk report just written reads
\* "_None found._" exactly when the import graph among the inventory's packages has
\* no directed cycle; when it has one, every line of the section is a cycle
\* "a -> b -> ... -> a" along import edges, and there is at least one.
C12_CyclesSectionMatchesGraph ==
    lastOp.op = "vault" =>
        LET section == SectionOf(vault[S_risk_md], <<"#", "#", " ", "I", "m", "p", "o", "r", "t", " ", "C", "y", "c", "l", "e", "s">>)
            packages == modelFile.inventory.packages
        IN /\ section = <<<<>>, <<"_", "N", "o", "n", "e", " ", "f", "o", "u", "n", "d", ".", "_">>>> <=> OnCycle(packages) = {}
           /\ OnCycle(packages) # {} =>
                 /\ Len(section) >= 2
                 /\ \A i \in 2..Len(section) : IsCycleLine(section[i], packages)

\* C12 witness: a vault written from an inventory whose only cycle runs between two
\* packages the search does not start in, and a risk report that lists it.
C12_Witness ==
    /\ lastOp.op = "vault"
    /\ OnCycle(modelFile.inventory.packages) = {<<"b">>, <<"c">>}
    /\ <<"a">> \in {modelFile.inventory.packages[i].name : i \in DOMAIN modelFile.inventory.packages}
    /\ \E i \in DOMAIN vault[S_risk_md] : vault[S_risk_md][i] = <<"-", " ", "b", " ", "→", " ", "c", " ", "→", " ", "b">>

\* The packages some package of the inventory imports.
Imported(packages) == UNION {Range(packages[i].imports) : i \in DOMAIN packages}

\* The number of packages of the inventory that import n.
Dependents(n, packages) == Cardinality({i \in DOMAIN packages : n \in Range(packages[i].imports)})

\* Whether package n comes before package m in the in-degree order.
RanksBefore(n, m, packages) ==
    \/ Dependents(n, packages) > Dependents(m, packages)
    \/ Dependents(n, packages) = Dependents(m, packages) /\ StrLess(n, m)

\* The rows of the in-degree table of a risk report, each split at its blanks into
\* <<"|", package, "|", dependents, "|">>; none when the table is left out.
InDegreeRows(page) ==
    LET section == SectionOf(page, <<"#", "#", " ", "T", "o", "p", " ", "P", "a", "c", "k", "a", "g", "e", "s", " ", "b", "y", " ", "I", "n", "-", "D", "e", "g", "r", "e", "e">>)
    IN IF Len(section) <= 2 THEN <<>>
       ELSE [i \in 1..(Len(section) - 4) |-> Split(section[i + 3], " ")]

\* C13: the in-degree table of the risk report just written has one row per package
\* imported by at least one inventory package, showing the number of inventory
\* packages that import it, in descending order of that number and then ascending
\* order of the name, cut after the first 10 rows of that order.
C13_InDegreeTable ==
    lastOp.op = "vault" =>
        LET packages == modelFile.inventory.packages
            section == SectionOf(vault[S_risk_md], <<"#", "#", " ", "T", "o", "p", " ", "P", "a", "c", "k", "a", "g", "e", "s", " ", "b", "y", " ", "I", "n", "-", "D", "e", "g", "r", "e", "e">>)
            rows == InDegreeRows(vault[S_risk_md])
            listed == {rows[i][2] : i \in DOMAIN rows}
        IN /\ section[1] = <<>> /\ section[Len(section)] = <<>>
           /\ Len(rows) > 0 => /\ section[2] = <<"|", " ", "P", "a", "c", "k", "a", "g", "e", " ", "|", " ", "D", "e", "p", "e", "n", "d", "e", "n", "t", "s", " ", "|">>
                               /\ section[3] = <<"|", "-", "-", "-", "-", "-", "-", "-", "-", "-", "|", "-", "-", "-", "-", "-", "-", "-", "-", "-", "-", "-", "-", "|">>
           /\ Len(rows) = IF Cardinality(Imported(packages)) > 10 THEN 10
                          ELSE Cardinality(Imported(packages))
           /\ \A i \in DOMAIN rows :
                 /\ Len(rows[i]) = 5
                 /\ rows[i][1] = <<"|">> /\ rows[i][3] = <<"|">> /\ rows[i][5] = <<"|">>
                 /\ rows[i][2] \in Imported(packages)
                 /\ rows[i][4] = Itoa(Dependents(rows[i][2], packages))
           /\ \A i \in 1..(Len(rows) - 1) : RanksBefore(rows[i][2], rows[i + 1][2], packages)
           /\ \A m \in Imported(packages) \ listed : \A n \in listed : RanksBefore(n, m, packages)

\* C13 witness: a risk report written from an inventory with eleven imported
\* packages: ten rows, the package with two dependents first, the last name cut.
C13_Witness ==
    /\ lastOp.op = "vault"
    /\ Cardinality(Imported(modelFile.inventory.packages)) = 11
    /\ Len(InDegreeRows(vault[S_risk_md])) = 10
    /\ InDegreeRows(vault[S_risk_md])[1] = <<<<"|">>, <<"k">>, <<"|">>, <<"2">>, <<"|">>>>
    /\ InDegreeRows(vault[S_risk_md])[10][2] = <<"i">>

\* C19: after a vault run every state domain of the model has its own page
\* domains/<sanitized-id>.md in the vault, holding that domain's page, and two
\* distinct state domains have distinct pages.
C19_OnePagePerDomain ==
    lastOp.op = "vault" =>
        LET domains == modelFile.state_domains
        IN /\ \A i \in DOMAIN domains :
                /\ DomainPagePath(domains[i].id) \in DOMAIN vault
                /\ vault[DomainPagePath(domains[i].id)] = buildDomainPage(domains[i], modelFile.effects)
           /\ \A i, j \in DOMAIN domains :
                domains[i] # domains[j] => DomainPagePath(domains[i].id) # DomainPagePath(domains[j].id)

\* The import edges of the inventory as pairs <<from, to>>.
EdgePairs(packages) ==
    UNION {{<<packages[i].name, packages[i].imports[k]>> : k \in DOMAIN packages[i].imports} :
           i \in DOMAIN packages}

\* Whether edge e comes before edge f in the order by (from, to).
EdgeBefore(e, f) == StrLess(e[1], f[1]) \/ (e[1] = f[1] /\ StrLess(e[2], f[2]))

\* The line of an edge in the Mermaid graph.
EdgeLine(e) == <<" ", " ">> \o e[1] \o <<" ", "-", "-", ">", " ">> \o e[2]

\* C20: the dependency page just written says _No packages._ when the inventory
\* has no packages; otherwise it holds a Mermaid fence opened by graph LR whose
\* lines are exactly the edge lines from --> to, one per import edge of the
\* inventory, in ascending order of (from, to).
C20_DependencyPage ==
    lastOp.op = "vault" =>
        LET page == vault[S_graphs_dependencies_md]
            packages == modelFile.inventory.packages
            edges == EdgePairs(packages)
            rank(e) == Cardinality({f \in edges : EdgeBefore(f, e)}) + 1
        IN IF Len(packages) = 0
           THEN \E i \in DOMAIN page : page[i] = <<"_", "N", "o", " ", "p", "a", "c", "k", "a", "g", "e", "s", ".", "_">>
           ELSE \E at \in DOMAIN page :
                   /\ page[at] = <<C_backtick, C_backtick, C_backtick>> \o <<"m", "e", "r", "m", "a", "i", "d">>
                   /\ Len(page) = at + 2 + Cardinality(edges)
                   /\ page[at + 1] = <<"g", "r", "a", "p", "h", " ", "L", "R">>
                   /\ page[Len(page)] = <<C_backtick, C_backtick, C_backtick>>
                   /\ \A e \in edges : page[at + 1 + rank(e)] = EdgeLine(e)

\* C20 (amended): the dependency page just written says _No packages._ when the
\* inventory has no import edge, whether or not it has packages; otherwise it
\* holds a Mermaid fence opened by graph LR whose lines are exactly the edge lines
\* from --> to, one per import edge, in ascending order of (from, to).
C20_DependencyPageByEdges ==
    lastOp.op = "vault" =>
        LET page == vault[S_graphs_dependencies_md]
            edges == EdgePairs(modelFile.inventory.packages)
            rank(e) == Cardinality({f \in edges : EdgeBefore(f, e)}) + 1
        IN IF edges = {}
           THEN /\ page[Len(page)] = <<"_", "N", "o", " ", "p", "a", "c", "k", "a", "g", "e", "s", ".", "_">>
                /\ \A i \in DOMAIN page : page[i] # <<"g", "r", "a", "p", "h", " ", "L", "R">>
           ELSE \E at \in DOMAIN page :
                   /\ page[at] = <<C_backtick, C_backtick, C_backtick>> \o <<"m", "e", "r", "m", "a", "i", "d">>
                   /\ Len(page) = at + 2 + Cardinality(edges)
                   /\ page[at + 1] = <<"g", "r", "a", "p", "h", " ", "L", "R">>
                   /\ page[Len(page)] = <<C_backtick, C_backtick, C_backtick>>
                   /\ \A e \in edges : page[at + 1 + rank(e)] = EdgeLine(e)
                   /\ \A i \in DOMAIN page : page[i] # <<"_", "N", "o", " ", "p", "a", "c", "k", "a", "g", "e", "s", ".", "_">>

\* C20 witness: the dependency page of an inventory in which one package imports
\* two others and a second package imports as well has just been written.
C20_Witness ==
    /\ lastOp.op = "vault"
    /\ \E i, j \in DOMAIN modelFile.inventory.packages :
          /\ i # j
          /\ Len(modelFile.inventory.packages[i].imports) >= 2
          /\ Len(modelFile.inventory.packages[j].imports) >= 1
    /\ \E at \in DOMAIN vault[S_graphs_dependencies_md] :
          vault[S_graphs_dependencies_md][at] = <<"g", "r", "a", "p", "h", " ", "L", "R">>

(***************************************************************************)
(* Claim about stopped runs, checked under SpecCancel                      *)
(***************************************************************************)
\* C14: when a vault run is stopped part-way, the vault directory is exactly as it
\* was when the run began, or holds the complete vault of the run: all of the
\* artifact or none of it.
C14_CancelledStageAllOrNothing ==
    lastOp.op = "vault-cancelled" => (lastOp.asBegan \/ lastOp.complete)

(***************************************************************************)
(* Walks over a tree with excluded paths, failing files and a deny list    *)
(***************************************************************************)
TreePathCatalog ==
    << <<"z", ".", "g", "o">>, <<"b", "/", "c", ".", "g", "o">>, <<"v", "e", "n", "d", "o", "r", "/", "v", ".", "g", "o">>, <<"a", "_", "t", "e", "s", "t", ".", "g", "o">>, <<"s", "/", "d", ".", "g", "o">>, <<".", "h", "/", "x", ".", "g", "o">>, <<"d", "o", "c", "s", "/", "e", ".", "g", "o">> >>

TreePaths == {TreePathCatalog[i] : i \in 1..NumTreePaths}

\* The file a tree holds at path p when it parses: its package is named after its
\* directory, main at the root, and its bytes differ from path to path.
TreeSourceOf(p) ==
    [SourceCatalog[1] EXCEPT !.bytes = p,
                             !.pkg = IF Len(DirSegs(p)) = 0 THEN S_main ELSE DirSegs(p)[1]]

\* What a tree may hold at p: a path the walk looks at may be missing, unreadable,
\* rejected by the parser or fine; the others hold a file that parses.
TreeFilesAt(p) ==
    IF IsWalkedSource(p) THEN {Absent, Unreadable, SourceCatalog[3], TreeSourceOf(p)}
    ELSE {TreeSourceOf(p)}

\* .iguana/settings.yaml: missing, or with the one rule that denies directory b.
DenyB == [deny |-> <<<<"R", "e", "a", "d", "(", ".", "/", "b", "/", "*", "*", ")">>>>]

InitTree ==
    /\ src \in {t \in [TreePaths -> UNION {TreeFilesAt(p) : p \in TreePaths}] :
                   \A p \in TreePaths : t[p] \in TreeFilesAt(p)}
    /\ companion \in {[p \in TreePaths |-> Absent],
                      [p \in TreePaths |-> IF p = TreePathCatalog[1] THEN Unwritable ELSE Absent]}
    /\ genFrom = [p \in TreePaths |-> NoStr]
    /\ settings \in {Absent, DenyB}
    /\ modelFile = Absent
    /\ modelFrom = <<>>
    /\ repo = NoRepo
    /\ container = NoContainer
    /\ vault = NoPages
    /\ lastOp = [op |-> "none"]

NextTree ==
    \/ Walk
    \/ \E infer \in Replies \cup {InferError} : SystemModelCmd(infer)

SpecTree == InitTree /\ [][NextTree]_vars

(***************************************************************************)
(* Claims about walks over such trees, checked under SpecTree              *)
(***************************************************************************)
\* Whether the deny list excludes p: the file itself or a directory above it matches.
DeniedPath(s, p) == IsDenied(s, p) \/ \E d \in DirPrefixes(p) : IsDenied(s, d)

\* The files a walk is to process: present .go files that are no tests, lie under no
\* skipped directory and are not denied.
Eligible == {p \in DOMAIN src : src[p] # Absent /\ IsWalkedSource(p) /\ ~DeniedPath(settings, p)}

\* Whether processing the file at p fails: it cannot be read or parsed, or its
\* companion cannot be written.
FailsAt(p) ==
    \/ src[p] = Unreadable
    \/ src[p] # Unreadable /\ ~src[p].parses
    \/ companion[p] = Unwritable

Excluded(p) == ~IsWalkedSource(p) \/ DeniedPath(settings, p)

\* C16: after a walk no companion bundle exists for a file under vendor, testdata,
\* examples, docs or a hidden directory, for a _test.go file, or for a file that a
\* deny rule matches; and every package of the written system model has a file
\* that is not excluded.
C16_ExcludedPathsLeaveNoBundle ==
    /\ lastOp.op = "walk" =>
          \A p \in DOMAIN companion : Excluded(p) => ~IsBundle(companion[p])
    /\ IsBundle(modelFile) =>
          \A i \in DOMAIN modelFile.inventory.packages :
              \E k \in DOMAIN modelFile.inventory.packages[i].files :
                  ~Excluded(modelFile.inventory.packages[i].files[k])

(***************************************************************************)
(* The deny list asked about paths                                         *)
(***************************************************************************)
\* Deny rules as written in settings.yaml, each with the glob it stands for.
RuleCatalog ==
    << [text |-> <<"R", "e", "a", "d", "(", ".", "/", "b", "/", "*", "*", ")">>, glob |-> <<"b", "/", "*", "*">>],
       [text |-> <<"*", ".", "g", "o">>, glob |-> <<"*", ".", "g", "o">>],
       [text |-> <<".", "/", "b", "/", "*">>, glob |-> <<"b", "/", "*">>],
       [text |-> <<"b">>, glob |-> <<"b">>],
       [text |-> <<"R", "e", "a", "d", "(", "b", "*", "/", "*", "*", ")">>, glob |-> <<"b", "*", "/", "*", "*">>],
       [text |-> <<"R", "e", "a", "d", "(", "*", ".", "g", "o">>, glob |-> <<"R", "e", "a", "d", "(", "*", ".", "g", "o">>],
       [text |-> <<"R", "e", "a", "d", "(", ".", "/", "*", "/", "*", ".", "g", "o", ")">>, glob |-> <<"*", "/", "*", ".", "g", "o">>],
       [text |-> <<"b", "/", "d", "/", "*", "*">>, glob |-> <<"b", "/", "d", "/", "*", "*">>],
       [text |-> <<"*">>, glob |-> <<"*">>] >>

Rules == {RuleCatalog[i] : i \in 1..NumRules}

\* The settings documents: none, one rule, or two rules that follow each other in
\* the catalogue.
SettingsDocs ==
    {Absent}
    \cup {[deny |-> <<r.text>>] : r \in Rules}
    \cup {[deny |-> <<RuleCatalog[i].text, RuleCatalog[i + 1].text>>] : i \in 1..(NumRules - 1)}

\* The root-relative paths asked about.
QueryCatalog ==
    << <<"b">>, <<"b", "/", "c", ".", "g", "o">>, <<"b", "/", "d", "/", "e", ".", "g", "o">>, <<"z", ".", "g", "o">>, <<"a", "/", "b", "/", "c", ".", "g", "o">>, <<"b", "b", "/", "c", ".", "g", "o">>,
       <<"b", "*", "/", "c", ".", "g", "o">>, <<"R", "e", "a", "d", "(", "z", ".", "g", "o">>, <<"b", "/", "d">>, <<".", "/", "b", "/", "c", ".", "g", "o">> >>

QueryPaths == {QueryCatalog[i] : i \in 1..NumQueryPaths}

InitDeny ==
    /\ src = NoFiles
    /\ companion = NoFiles
    /\ genFrom = [p \in Paths |-> NoStr]
    /\ settings \in SettingsDocs
    /\ modelFile = Absent
    /\ modelFrom = <<>>
    /\ repo = NoRepo
    /\ container = NoContainer
    /\ vault = NoPages
    /\ lastOp = [op |-> "none"]

\* s.IsDenied(relPath) is asked of the loaded settings.
AskDenied(relPath) ==
    /\ lastOp' = [op |-> "denied", path |-> relPath, denied |-> IsDenied(settings, relPath)]
    /\ UNCHANGED <<src, companion, genFrom, settings, modelFile, modelFrom, vault, repo, container>>

NextDeny == \E relPath \in QueryPaths : AskDenied(relPath)

SpecDeny == InitDeny /\ [][NextDeny]_vars

(***************************************************************************)
(* Claim about the deny list, checked under SpecDeny                       *)
(***************************************************************************)
\* Whether a pattern of literals and * matches a name that holds no "/".
RECURSIVE SegmentMatches(_, _)
SegmentMatches(pattern, name) ==
    IF Len(pattern) = 0 THEN Len(name) = 0
    ELSE IF pattern[1] = "*"
         THEN \E n \in 0..Len(name) : SegmentMatches(Tail(pattern), SubSeq(name, n + 1, Len(name)))
    ELSE Len(name) > 0 /\ name[1] = pattern[1] /\ SegmentMatches(Tail(pattern), Tail(name))

\* What a glob is to match: "prefix/**" the path whose segments begin with those of
\* prefix; any other glob the path with as many segments, each matching its own.
GlobCovers(glob, path) ==
    LET g == Split(glob, S_slash)
        p == Split(path, S_slash)
    IN IF Len(g) >= 2 /\ g[Len(g)] = <<"*", "*">>
       THEN Len(p) >= Len(g) - 1 /\ SubSeq(p, 1, Len(g) - 1) = SubSeq(g, 1, Len(g) - 1)
       ELSE Len(p) = Len(g) /\ \A i \in DOMAIN g : SegmentMatches(g[i], p[i])

\* The glob a rule text stands for, by the catalogue.
GlobOf(text) == (CHOOSE r \in Range(RuleCatalog) : r.text = text).glob

\* C17: a path is denied exactly when the settings exist and one of the rules,
\* with its Read(...) wrapper and leading ./ stripped, covers it: a rule prefix/**
\* covers prefix itself and every path beginning with prefix/ and no other, and any
\* other rule covers a path only segment by segment, * never crossing a /.
C17_DenyRuleSemantics ==
    /\ lastOp.op = "denied" =>
          (lastOp.denied <=>
              /\ settings # Absent
              /\ \E i \in DOMAIN settings.deny : GlobCovers(GlobOf(settings.deny[i]), lastOp.path))
    /\ settings # Absent => \A i \in DOMAIN settings.deny : parseDenyRule(settings.deny[i]) = GlobOf(settings.deny[i])

\* C17 witness: a path two directories below b has been found denied by the wrapped
\* rule Read(./b/**), which a glob that stops at "/" would not match.
C17_Witness ==
    /\ lastOp.op = "denied"
    /\ lastOp.denied
    /\ settings = [deny |-> <<<<"R", "e", "a", "d", "(", ".", "/", "b", "/", "*", "*", ")">>>>]
    /\ lastOp.path = <<"b", "/", "d", "/", "e", ".", "g", "o">>
    /\ ~GlobMatch(<<"b", "/", "*", "*">>, lastOp.path)

(***************************************************************************)
(* Repeated runs: the walk and the vault run again and again               *)
(***************************************************************************)
\* The inventory of package a importing package b.
TwoPackages ==
    InventoryOf({<<"a">>, <<"b">>},
                [n \in {<<"a">>, <<"b">>} |-> IF n = <<"a">> THEN {<<"b">>} ELSE {}])

InitRepeat ==
    /\ src = NoFiles
    /\ companion = NoFiles
    /\ genFrom = [p \in Paths |-> NoStr]
    /\ settings = Absent
    /\ modelFile \in {VaultModel(TwoPackages, domains) : domains \in DomainLists}
    /\ modelFrom = <<>>
    /\ repo = NoRepo
    /\ container = NoContainer
    /\ vault = NoPages
    /\ lastOp = [op |-> "none"]

NextRepeat ==
    \/ \E p \in Paths, s \in Sources \cup {Absent} : EditSource(p, s)
    \/ Walk
    \/ ExportVault

SpecRepeat == InitRepeat /\ [][NextRepeat]_vars

ImportLine(path) == [kind |-> "import", path |-> path]

CallLine(x, sel) == [kind |-> "call", x |-> x, sel |-> sel]

VarLine(name) == [kind |-> "var", name |-> name]

GoLine == [kind |-> "go"]

LineCatalog ==
    << ImportLine(<<"o", "s">>), CallLine(<<"o", "s">>, <<"R", "e", "a", "d", "F", "i", "l", "e">>), VarLine(<<"o", "s">>), GoLine,
       ImportLine(<<"e", "n", "c", "o", "d", "i", "n", "g", "/", "j", "s", "o", "n">>), CallLine(<<"j", "s", "o", "n">>, <<"M", "a", "r", "s", "h", "a", "l">>),
       ImportLine(<<"d", "a", "t", "a", "b", "a", "s", "e", "/", "s", "q", "l">>), CallLine(<<"y", "a", "m", "l">>, <<"M", "a", "r", "s", "h", "a", "l">>) >>

Lines == {LineCatalog[i] : i \in 1..NumLines}

\* The name an import is used under: the last element of its path.
ImportedName(path) == LET segs == Split(path, S_slash) IN segs[Len(segs)]

\* typesInfo.Uses for the identifier x at line i: a variable declared above it in
\* the body hides the package name of an import; "none" when x is declared nowhere.
Uses(lines, i, x) ==
    IF \E j \in 1..(i - 1) : lines[j].kind = "var" /\ lines[j].name = x THEN "Var"
    ELSE IF \E j \in DOMAIN lines : lines[j].kind = "import" /\ ImportedName(lines[j].path) = x
         THEN "PkgName"
    ELSE "none"

\* resolveCallTarget for the selector call at line i.  With type information a
\* package name gives <package>.<sel>, a method of a package-local type gives <sel>;
\* without it, or for an identifier go/types knows nothing of, <x>.<sel>.
resolveCallTarget(lines, i, typed) ==
    LET e == lines[i]
    IN IF typed /\ Uses(lines, i, e.x) = "PkgName" THEN e.x \o <<".">> \o e.sel
       ELSE IF typed /\ Uses(lines, i, e.x) = "Var" THEN e.sel
       ELSE e.x \o <<".">> \o e.sel

\* What the parser and the type checker read out of the lines: a source file as
\* buildBundle takes it.
ParsedFile(lines, typed) ==
    LET calling == {i \in DOMAIN lines : lines[i].kind = "call"}
        importing == SelectSeq(lines, LAMBDA l : l.kind = "import")
    IN [parses |-> TRUE, pkg |-> S_main,
        imports |-> [k \in DOMAIN importing |-> importing[k].path],
        calls |-> {resolveCallTarget(lines, i, typed) : i \in calling},
        funcs |-> {S_main},
        conc |-> \E i \in DOMAIN lines : lines[i].kind = "go",
        lines |-> lines]

\* The signals of the evidence bundle (evidence_v2.go).
SignalsV2(lines, typed) ==
    LET file == ParsedFile(lines, typed)
    IN extractSignals(extractPackageMeta(file), file.calls, file)

\* extractSignals of internal/static: the call set is read off the syntax alone,
\* <x>.<sel> for every selector call; seven signals.
static_extractSignals(meta, file) ==
    LET importSet == Range(meta.imports)
        callSet == {file.lines[i].x \o <<".">> \o file.lines[i].sel :
                       i \in {k \in DOMAIN file.lines : file.lines[k].kind = "call"}}
    IN [fs_reads  |-> \E fn \in {S_os_Open, S_os_ReadFile, S_ioutil_ReadFile, S_filepath_Walk} : fn \in callSet,
        fs_writes |-> \E fn \in {S_os_Create, S_os_WriteFile, S_os_Remove} : fn \in callSet,
        db_calls  |-> S_database_sql \in importSet
                      \/ \E target \in callSet :
                            Contains(target, S_Query) \/ Contains(target, S_Exec) \/ Contains(target, S_Scan),
        net_calls |-> S_net \in importSet \/ S_net_http \in importSet,
        concurrency |-> (\E path \in importSet : path = S_sync \/ HasPrefix(path, S_sync_slash)) \/ file.conc,
        yaml_io |-> (\E path \in importSet : Contains(path, <<"y", "a", "m", "l">>))
                    \/ \E target \in callSet : HasPrefix(target, <<"y", "a", "m", "l", ".">>),
        json_io |-> <<"e", "n", "c", "o", "d", "i", "n", "g", "/", "j", "s", "o", "n">> \in importSet
                    \/ \E target \in callSet : HasPrefix(target, <<"j", "s", "o", "n", ".">>)]

\* The signals of the static plugin's bundle.
SignalsStatic(lines) ==
    LET file == ParsedFile(lines, FALSE)
    IN static_extractSignals(extractPackageMeta(file), file)

\* A file under edit: no line yet; its package loads with type information or not.
InitGrow ==
    /\ src \in {[p \in Paths |-> IF p = PathCatalog[1] THEN [lines |-> <<>>, typed |-> typed] ELSE Absent] :
                  typed \in BOOLEAN}
    /\ companion = NoFiles
    /\ genFrom = [p \in Paths |-> NoStr]
    /\ settings = Absent
    /\ modelFile = Absent
    /\ modelFrom = <<>>
    /\ repo = NoRepo
    /\ container = NoContainer
    /\ vault = NoPages
    /\ lastOp = [op |-> "none"]

\* A line is added to the file after its first k lines, and the file is analyzed
\* before and after.
AddLine(k, line) ==
    LET p == PathCatalog[1]
        old == src[p].lines
        new == SubSeq(old, 1, k) \o <<line>> \o SubSeq(old, k + 1, Len(old))
    IN /\ Len(old) < MaxFileLines
       /\ k <= Len(old)
       /\ src' = [src EXCEPT ![p].lines = new]
       /\ lastOp' = [op |-> "add",
                     was |-> SignalsV2(old, src[p].typed), now |-> SignalsV2(new, src[p].typed),
                     staticWas |-> SignalsStatic(old), staticNow |-> SignalsStatic(new)]
       /\ UNCHANGED <<companion, genFrom, settings, modelFile, modelFrom, vault, repo, container>>

NextGrow == \E k \in 0..MaxFileLines, line \in Lines : AddLine(k, line)

SpecGrow == InitGrow /\ [][NextGrow]_vars

(***************************************************************************)
(* Claim about a growing file, checked under SpecGrow                      *)
(***************************************************************************)
\* C21: a signal that is true for a file is true for the file with a line added:
\* each signal of the evidence bundle and each of the seven signals of the static
\* plugin's bundle.
C21_SignalsMonotone ==
    lastOp.op = "add" =>
        /\ \A s \in DOMAIN lastOp.was : lastOp.was[s] => lastOp.now[s]
        /\ \A s \in DOMAIN lastOp.staticWas : lastOp.staticWas[s] => lastOp.staticNow[s]

(***************************************************************************)
(* The static plugin (internal/static): one bundle per .go file of a clone *)
(*                                                                         *)
(* The output directory is held per source path: the file                  *)
(* <outputDir>/<dir>/<base>.md of the source at <dir>/<base>.              *)
(***************************************************************************)
\* A bundle file that decodes but holds no hash string.
Hashless == [kind |-> "nohash"]

\* buildRef: git://<host/path>@<commit>/<relPath>, with #L<line> for line > 0.
buildRef(repoURL, commitHash, relPath, line) ==
    LET base == TrimPrefix(TrimPrefix(TrimSuffix(repoURL, <<".", "g", "i", "t">>), <<"h", "t", "t", "p", "s", ":", "/", "/">>), <<"h", "t", "t", "p", ":", "/", "/">>)
        ref == <<"g", "i", "t", ":", "/", "/">> \o base \o <<"@">> \o commitHash \o <<S_slash>> \o relPath
    IN IF line > 0 THEN ref \o <<"#", "L">> \o Itoa(line) ELSE ref

\* extractFunctions: the declared functions sorted by name, each with the ref of
\* its line; the functions stand below the import block, one per line.
extractFunctions(file, repoURL, commitHash, relPath) ==
    LET names == SortedOfSet(file.funcs)
    IN [i \in DOMAIN names |->
           [name |-> names[i],
            ref |-> buildRef(repoURL, commitHash, relPath, Len(file.imports) + i)]]

\* buildFrontmatter: parse the file and assemble its bundle; "parse" for a file the
\* parser rejects.
buildFrontmatter(relPath, repoURL, commitHash, hash, file) ==
    IF ~file.parses THEN ParseError
    ELSE LET pkgMeta == extractPackageMeta(file)
         IN [plugin |-> <<"s", "t", "a", "t", "i", "c">>,
             schema |-> <<"s", "c", "h", "e", "m", "a", ".", "m", "d">>,
             hash |-> hash,
             file |-> [path |-> relPath, ref |-> buildRef(repoURL, commitHash, relPath, 0)],
             package |-> pkgMeta,
             functions |-> extractFunctions(file, repoURL, commitHash, relPath),
             signals |-> static_extractSignals(pkgMeta, file)]

\* extractHashFromBundle: the hash string of an existing bundle file, if it decodes
\* and holds one.
extractHashFromBundle(data) ==
    IF data \in {Corrupt, Hashless} THEN [hash |-> NoStr, ok |-> FALSE]
    ELSE [hash |-> data.hash, ok |-> TRUE]

\* A write that takes an existing file it cannot decode for up to date.
writeBundle_KeepsUndecodable(relPath, repoURL, commitHash, tree, out) ==
    IF tree[relPath] \in {Absent, Unreadable} THEN [err |-> "read", out |-> out, skipped |-> FALSE]
    ELSE LET hash == Sha256Hex(tree[relPath].bytes)
             fm == buildFrontmatter(relPath, repoURL, commitHash, hash, tree[relPath])
         IN IF /\ out[relPath] \notin {Absent, Unwritable}
               /\ (~extractHashFromBundle(out[relPath]).ok \/ extractHashFromBundle(out[relPath]).hash = hash)
            THEN [err |-> "none", out |-> out, skipped |-> TRUE]
            ELSE IF fm = ParseError THEN [err |-> "build frontmatter", out |-> out, skipped |-> FALSE]
            ELSE IF out[relPath] = Unwritable THEN [err |-> "write", out |-> out, skipped |-> FALSE]
            ELSE [err |-> "none", out |-> [out EXCEPT ![relPath] = fm], skipped |-> FALSE]

\* A write that takes a failed write of the bundle file for done.
writeBundle_IgnoresWriteError(relPath, repoURL, commitHash, tree, out) ==
    IF tree[relPath] \in {Absent, Unreadable} THEN [err |-> "read", out |-> out, skipped |-> FALSE]
    ELSE LET hash == Sha256Hex(tree[relPath].bytes)
             fm == buildFrontmatter(relPath, repoURL, commitHash, hash, tree[relPath])
         IN IF /\ out[relPath] \notin {Absent, Unwritable}
               /\ extractHashFromBundle(out[relPath]).ok
               /\ extractHashFromBundle(out[relPath]).hash = hash
            THEN [err |-> "none", out |-> out, skipped |-> TRUE]
            ELSE IF fm = ParseError THEN [err |-> "build frontmatter", out |-> out, skipped |-> FALSE]
            ELSE IF out[relPath] = Unwritable THEN [err |-> "none", out |-> out, skipped |-> FALSE]
            ELSE [err |-> "none", out |-> [out EXCEPT ![relPath] = fm], skipped |-> FALSE]

\* A write that takes any existing bundle file that stores a hash for up to date.
writeBundle_SkipsAnyBundle(relPath, repoURL, commitHash, tree, out) ==
    IF tree[relPath] \in {Absent, Unreadable} THEN [err |-> "read", out |-> out, skipped |-> FALSE]
    ELSE LET hash == Sha256Hex(tree[relPath].bytes)
             fm == buildFrontmatter(relPath, repoURL, commitHash, hash, tree[relPath])
         IN IF /\ out[relPath] \notin {Absent, Unwritable}
               /\ extractHashFromBundle(out[relPath]).ok
            THEN [err |-> "none", out |-> out, skipped |-> TRUE]
            ELSE IF fm = ParseError THEN [err |-> "build frontmatter", out |-> out, skipped |-> FALSE]
            ELSE IF out[relPath] = Unwritable THEN [err |-> "write", out |-> out, skipped |-> FALSE]
            ELSE [err |-> "none", out |-> [out EXCEPT ![relPath] = fm], skipped |-> FALSE]

\* writeBundle: hash the source; skip when the existing bundle file can be read and
\* stores that hash; else build the bundle and write it.  A directory standing at
\* the output path (Unwritable) can be neither read nor written.
writeBundle(relPath, repoURL, commitHash, tree, out) ==
    IF tree[relPath] \in {Absent, Unreadable} THEN [err |-> "read", out |-> out, skipped |-> FALSE]
    ELSE LET hash == Sha256Hex(tree[relPath].bytes)
             fm == buildFrontmatter(relPath, repoURL, commitHash, hash, tree[relPath])
         IN IF /\ out[relPath] \notin {Absent, Unwritable}
               /\ extractHashFromBundle(out[relPath]).ok
               /\ extractHashFromBundle(out[relPath]).hash = hash
            THEN [err |-> "none", out |-> out, skipped |-> TRUE]
            ELSE IF fm = ParseError THEN [err |-> "build frontmatter", out |-> out, skipped |-> FALSE]
            ELSE IF out[relPath] = Unwritable THEN [err |-> "write", out |-> out, skipped |-> FALSE]
            ELSE [err |-> "none", out |-> [out EXCEPT ![relPath] = fm], skipped |-> FALSE]

\* The loop of AnalyzeDir over the remaining files: an error is kept and the loop
\* goes on.
RECURSIVE analyzeFiles(_, _, _, _, _)
analyzeFiles(files, repoURL, commitHash, tree, acc) ==
    IF Len(files) = 0 THEN acc
    ELSE LET relPath == files[1]
             w == writeBundle(relPath, repoURL, commitHash, tree, acc.out)
         IN analyzeFiles(Tail(files), repoURL, commitHash, tree,
               [out |-> w.out,
                errs |-> IF w.err # "none" THEN Append(acc.errs, [stage |-> w.err, path |-> relPath])
                         ELSE acc.errs,
                skipped |-> IF w.skipped THEN Append(acc.skipped, relPath) ELSE acc.skipped,
                wrote |-> IF w.err = "none" /\ ~w.skipped THEN Append(acc.wrote, relPath) ELSE acc.wrote])

\* AnalyzeDir(root, repoURL, commitHash, outputDir): the files collected as the walk
\* collects them, directory by directory in sorted order.
AnalyzeDir(tree, repoURL, commitHash, out) ==
    analyzeFiles(WalkOrder(tree), repoURL, commitHash, tree,
                 [out |-> out, errs |-> <<>>, skipped |-> <<>>, wrote |-> <<>>])

(***************************************************************************)
(* Bounded inputs of the static plugin                                     *)
(***************************************************************************)
\* A source file of the clone: its bytes and what the parser reads out of its lines.
StaticSourceOf(bytes, lines) == [bytes |-> bytes] @@ ParsedFile(lines, FALSE)

StaticSourceCatalog ==
    << StaticSourceOf(<<"m">>, <<ImportLine(<<"o", "s">>), CallLine(<<"o", "s">>, <<"R", "e", "a", "d", "F", "i", "l", "e">>)>>),
       [bytes |-> <<"x", "(">>, parses |-> FALSE],
       StaticSourceOf(<<"n">>, <<GoLine>>),
       StaticSourceOf(<<"j">>, <<ImportLine(<<"e", "n", "c", "o", "d", "i", "n", "g", "/", "j", "s", "o", "n">>)>>) >>

StaticSources == {StaticSourceCatalog[i] : i \in 1..NumStaticSources}

CommitCatalog == << <<"c", "1">>, <<"c", "2">>, <<"c", "3">> >>

Commits == {CommitCatalog[i] : i \in 1..NumCommits}

S_repo_url == <<"h", "t", "t", "p", "s", ":", "/", "/", "h", "/", "r", ".", "g", "i", "t">>

\* The clone holds any files at its first commit; the output directory holds, per
\* path, no file, a file that does not decode, one without a hash, or a directory.
InitStatic ==
    /\ src \in [Paths -> StaticSources \cup {Absent}]
    /\ companion \in [Paths -> {Absent, Corrupt, Hashless, Unwritable}]
    /\ genFrom = [p \in Paths |-> NoStr]
    /\ settings = Absent
    /\ modelFile = Absent
    /\ modelFrom = <<>>
    /\ repo = [url |-> S_repo_url, commit |-> CommitCatalog[1]]
    /\ container = NoContainer
    /\ vault = NoPages
    /\ lastOp = [op |-> "none"]

\* git pull: the clone moves to another commit, in which the file at p has the
\* content s (the content it had, when the commit did not touch it).
Pull(commit, p, s) ==
    /\ commit # repo.commit
    /\ repo' = [repo EXCEPT !.commit = commit]
    /\ src' = [src EXCEPT ![p] = s]
    /\ lastOp' = [op |-> "pull"]
    /\ UNCHANGED <<companion, genFrom, settings, modelFile, modelFrom, vault, container>>

\* The static plugin analyzes the clone into the output directory.
StaticAnalyze ==
    LET r == AnalyzeDir(src, repo.url, repo.commit, companion)
    IN /\ companion' = r.out
       /\ lastOp' = [op |-> "static", errs |-> r.errs, skipped |-> r.skipped, wrote |-> r.wrote,
                     regenerated |-> {p \in Range(r.wrote) : companion[p] \in {Corrupt, Hashless}}]
       /\ UNCHANGED <<src, genFrom, settings, modelFile, modelFrom, vault, repo, container>>

NextStatic ==
    \/ \E commit \in Commits, p \in Paths, s \in StaticSources \cup {Absent} : Pull(commit, p, s)
    \/ StaticAnalyze

SpecStatic == InitStatic /\ [][NextStatic]_vars

(***************************************************************************)
(* Claims about the static plugin, checked under SpecStatic                *)
(***************************************************************************)
\* C22: when a run of the static plugin finds, for a file it walks, an existing
\* bundle file that does not decode or holds no hash, the write is not skipped and
\* no error is reported because of that file: a source that parses has its bundle
\* regenerated and written, and a source that does not parse fails in the build.
C22_UndecodableRegenerated ==
    [][ lastOp'.op = "static" =>
           \A p \in Range(WalkOrder(src)) :
               companion[p] \in {Corrupt, Hashless} =>
                   /\ p \notin Range(lastOp'.skipped)
                   /\ IF src[p].parses
                      THEN /\ p \in Range(lastOp'.wrote)
                           /\ \A i \in DOMAIN lastOp'.errs : lastOp'.errs[i].path # p
                           /\ companion'[p] = buildFrontmatter(p, repo.url, repo.commit,
                                                               Sha256Hex(src[p].bytes), src[p])
                      ELSE \A i \in DOMAIN lastOp'.errs :
                               lastOp'.errs[i].path = p => lastOp'.errs[i].stage = "build frontmatter" ]_vars

\* C22 witness: a run has just replaced an undecodable or hashless bundle file by
\* the regenerated bundle, and reported no error.
C22_Witness ==
    /\ lastOp.op = "static"
    /\ lastOp.regenerated # {}
    /\ lastOp.errs = <<>>
    /\ \A p \in lastOp.regenerated : extractHashFromBundle(companion[p]).hash = Sha256Hex(src[p].bytes)

\* C28: after a run of the static plugin that reports no error, every file the walk
\* collects has a bundle file whose stored hash is the SHA-256 of the file's bytes,
\* whatever stood at the bundle's path before the run.
C28_WalkLeavesCurrentHashes ==
    (lastOp.op = "static" /\ lastOp.errs = <<>>) =>
        \A p \in Range(WalkOrder(src)) :
            /\ companion[p] \notin {Absent, Corrupt, Hashless, Unwritable}
            /\ companion[p].hash = Sha256Hex(src[p].bytes)

\* C28 witness: a run without errors that skipped one file (its bundle was fresh)
\* and wrote the bundle of another.
C28_Witness ==
    /\ lastOp.op = "static"
    /\ lastOp.errs = <<>>
    /\ lastOp.skipped # <<>>
    /\ lastOp.wrote # <<>>
    /\ \A p \in Range(WalkOrder(src)) : extractHashFromBundle(companion[p]).ok

S_static == <<"s", "t", "a", "t", "i", "c">>

S_lint == <<"l", "i", "n", "t">>

\* The plugin registry of cmd/iguana/main.go.
plugins == {S_static}

ProjectNameCatalog == << <<"a", "p", "i">>, <<"w", "e", "b">>, <<"o", "p", "s">> >>

ProjectNames == {ProjectNameCatalog[i] : i \in 1..NumProjects}

S_good_repo == <<"h", "t", "t", "p", "s", ":", "/", "/", "h", "/", "r", ".", "g", "i", "t">>

S_lost_repo == <<"h", "t", "t", "p", "s", ":", "/", "/", "h", "/", "g", "o", "n", "e", ".", "g", "i", "t">>

\* The repositories git can clone.
Cloneable == {S_good_repo}

\* ProjectConfig: plugin name -> key/value map.
ProjectConfigCatalog ==
    << [Plugins |-> (S_static :> [repository |-> S_good_repo])],
       [Plugins |-> (S_lint :> [level |-> <<"a", "l", "l">>])],
       [Plugins |-> (S_static :> [repository |-> S_good_repo]) @@ (S_lint :> [level |-> <<"a", "l", "l">>])],
       [Plugins |-> (S_static :> [repository |-> S_lost_repo])],
       [Plugins |-> (S_static :> [repository |-> NoStr])] >>

ProjectConfigs == {ProjectConfigCatalog[i] : i \in 1..NumConfigs}

\* An AddProject that writes the config whether or not the project exists.
AddProject_Overwrites(c, name, config) ==
    [err |-> "none", c |-> [c EXCEPT ![name] = config]]

\* Container.AddProject: an error if <name>.yaml exists, else the config is written.
AddProject(c, name, config) ==
    IF c[name] # Absent THEN [err |-> "already exists", c |-> c]
    ELSE [err |-> "none", c |-> [c EXCEPT ![name] = config]]

\* Container.LoadProject: read and decode <name>.yaml.
LoadProject(c, name) ==
    IF c[name] = Absent THEN [err |-> "read", cfg |-> Absent]
    ELSE IF c[name] = Corrupt THEN [err |-> "parse", cfg |-> Absent]
    ELSE [err |-> "none", cfg |-> c[name]]

\* Container.ListProjects: the names of the *.yaml files, in directory order.
ListProjects(c) == SortedOfSet({n \in DOMAIN c : c[n] # Absent})

\* GoAnalyzer.Analyze up to the clone: the config needs a repository that git can
\* fetch; the bundles it then writes are those of AnalyzeDir.
static_Analyze(config) ==
    IF "repository" \notin DOMAIN config \/ config.repository = NoStr THEN "missing repository"
    ELSE IF config.repository \notin Cloneable THEN "fetch repo"
    ELSE "none"

\* The loop of runAnalyze over the remaining projects.  A project that does not
\* load, a plugin name that is not in the registry and a plugin that fails each
\* set anyErr and the loop goes on.
RECURSIVE analyzeProjects(_, _, _)
analyzeProjects(projects, c, acc) ==
    IF Len(projects) = 0 THEN acc
    ELSE LET proj == projects[1]
             l == LoadProject(c, proj)
         IN IF l.err # "none"
            THEN analyzeProjects(Tail(projects), c,
                     [acc EXCEPT !.loadErrs = @ \cup {proj}, !.anyErr = TRUE])
            ELSE LET names == DOMAIN l.cfg.Plugins
                     unknown == {n \in names : n \notin plugins}
                     failed == {n \in names \ unknown : static_Analyze(l.cfg.Plugins[n]) # "none"}
                     done == (names \ unknown) \ failed
                 IN analyzeProjects(Tail(projects), c,
                        [loadErrs |-> acc.loadErrs,
                         warnings |-> acc.warnings \cup {<<proj, n>> : n \in unknown},
                         failed |-> acc.failed \cup {<<proj, n>> : n \in failed},
                         done |-> acc.done \cup {<<proj, n>> : n \in done},
                         anyErr |-> acc.anyErr \/ unknown # {} \/ failed # {}])

\* runAnalyze: every plugin of every project of the container.
runAnalyze(c) ==
    LET r == analyzeProjects(ListProjects(c), c,
                 [loadErrs |-> {}, warnings |-> {}, failed |-> {}, done |-> {}, anyErr |-> FALSE])
    IN r @@ [err |-> IF r.anyErr THEN "one or more errors during analysis" ELSE "none"]

\* The container after `iguana init`, possibly with project files put there by hand
\* that do not decode.
InitContainer ==
    /\ container \in [ProjectNames -> {Absent, Corrupt}]
    /\ companion = [n \in ProjectNames |-> {}]
    /\ src = [p \in Paths |-> Absent]
    /\ genFrom = [p \in Paths |-> NoStr]
    /\ settings = Absent
    /\ modelFile = Absent
    /\ modelFrom = <<>>
    /\ repo = NoRepo
    /\ vault = NoPages
    /\ lastOp = [op |-> "none"]

\* `iguana add`: AddProject with the answers given.
Add(name, config) ==
    LET r == AddProject(container, name, config)
    IN /\ container' = r.c
       /\ lastOp' = [op |-> "add", name |-> name, config |-> config, err |-> r.err]
       /\ UNCHANGED <<src, companion, genFrom, settings, modelFile, modelFrom, vault, repo>>

\* `iguana analyze`.
Analyze ==
    LET r == runAnalyze(container)
    IN /\ companion' = [n \in ProjectNames |-> companion[n] \cup {x[2] : x \in {y \in r.done : y[1] = n}}]
       /\ lastOp' = [op |-> "analyze", warnings |-> r.warnings, loadErrs |-> r.loadErrs,
                     failed |-> r.failed, done |-> r.done, err |-> r.err]
       /\ UNCHANGED <<src, container, genFrom, settings, modelFile, modelFrom, vault, repo>>

NextContainer ==
    \/ \E name \in ProjectNames, config \in ProjectConfigs : Add(name, config)
    \/ Analyze

SpecContainer == InitContainer /\ [][NextContainer]_vars

(***************************************************************************)
(* Claims about the container, checked under SpecContainer                 *)
(***************************************************************************)
\* C25: a plugin name of a project config that is not in the registry gives a
\* warning and is skipped, and does not by itself make analyze fail: a run in
\* which every project loads and no registered plugin fails returns no error.
C25_UnknownPluginNotFatal ==
    lastOp.op = "analyze" =>
        /\ \A n \in ProjectNames :
               container[n] \notin {Absent, Corrupt} =>
                   \A pl \in DOMAIN container[n].Plugins :
                       pl \notin plugins => (<<n, pl>> \in lastOp.warnings /\ <<n, pl>> \notin lastOp.done)
        /\ (lastOp.loadErrs = {} /\ lastOp.failed = {}) => lastOp.err = "none"

\* C26: AddProject returns an error whenever the project's file exists, and no
\* step changes a project file that exists; an AddProject that succeeds leaves the
\* config it was given.
C26_AddProjectNeverOverwrites ==
    [][ /\ \A n \in ProjectNames : container[n] # Absent => container'[n] = container[n]
        /\ lastOp'.op = "add" =>
              /\ container[lastOp'.name] # Absent => lastOp'.err # "none"
              /\ lastOp'.err = "none" => container'[lastOp'.name] = lastOp'.config ]_vars

\* C26 witness: AddProject has just been refused for a project that exists with
\* another config than the one given.
C26_Witness ==
    /\ lastOp.op = "add"
    /\ lastOp.err # "none"
    /\ container[lastOp.name] \in ProjectConfigs
    /\ container[lastOp.name] # lastOp.config

(***************************************************************************)
(* extractCalls: the call pairs of a file, by a walk of its syntax tree     *)
(*                                                                         *)
(* A node holds its kind and its children in source order.  A call node    *)
(* holds the target resolveCallTarget gives for the called expression (the *)
(* empty string for an inline function literal or a type conversion); a    *)
(* function declaration its name and the text of its receiver type.        *)
(***************************************************************************)
CallExpr(to, kids) == [kind |-> "CallExpr", to |-> to, kids |-> kids]

FuncLit(kids) == [kind |-> "FuncLit", kids |-> kids]

FuncDecl(recv, name, kids) == [kind |-> "FuncDecl", recv |-> recv, name |-> name, kids |-> kids]

\* A declaration or statement that is neither a function nor a call.
OtherNode(kids) == [kind |-> "Other", kids |-> kids]

FileNode(decls) == [kind |-> "File", kids |-> decls]

S_global == <<"<", "g", "l", "o", "b", "a", "l", ">">>

S_anonymous == <<".", "<", "a", "n", "o", "n", "y", "m", "o", "u", "s", ">">>

\* funcDeclName: the name, with the receiver type before it for a method.
funcDeclName(decl) ==
    IF decl.recv = NoStr THEN decl.name ELSE decl.recv \o <<".">> \o decl.name

\* currentFunc: the top of funcStack, <global> when it is empty.
currentFunc(funcStack) ==
    IF Len(funcStack) = 0 THEN S_global ELSE funcStack[Len(funcStack)]

\* addCall: a pair with an empty target or one seen before is dropped.
addCall(calls, from, to) ==
    IF to = NoStr \/ [from |-> from, to |-> to] \in Range(calls) THEN calls
    ELSE Append(calls, [from |-> from, to |-> to])

\* The callback of ast.Inspect on entering node n.
inspectVisit(n, st) ==
    [funcStack |-> IF n.kind = "FuncDecl" THEN Append(st.funcStack, funcDeclName(n))
                   ELSE IF n.kind = "FuncLit"
                        THEN Append(st.funcStack, currentFunc(st.funcStack) \o S_anonymous)
                   ELSE st.funcStack,
     pushedStack |-> Append(st.pushedStack, n.kind \in {"FuncDecl", "FuncLit"}),
     calls |-> IF n.kind = "CallExpr" THEN addCall(st.calls, currentFunc(st.funcStack), n.to)
               ELSE st.calls,
     done |-> st.done]

\* A post-visit that forgets to take the function's name off funcStack.
inspectLeave_KeepsName(st) ==
    IF Len(st.pushedStack) = 0 THEN st
    ELSE [st EXCEPT !.pushedStack = SubSeq(@, 1, Len(@) - 1)]

\* The callback of ast.Inspect on leaving a node (n == nil): pop what was pushed
\* at this level.
inspectLeave(st) ==
    IF Len(st.pushedStack) = 0 THEN st
    ELSE [funcStack |-> IF st.pushedStack[Len(st.pushedStack)]
                        THEN SubSeq(st.funcStack, 1, Len(st.funcStack) - 1)
                        ELSE st.funcStack,
          pushedStack |-> SubSeq(st.pushedStack, 1, Len(st.pushedStack) - 1),
          calls |-> st.calls,
          done |-> st.done]

\* The post-visit call of the callback is made with a nil node.
NilNode == [kind |-> "nil"]

\* The calls ast.Inspect makes for a callback that always returns true: the node,
\* the calls for its children in source order, then nil.
RECURSIVE InspectCalls(_)
RECURSIVE InspectCallsAll(_)
InspectCalls(n) == <<n>> \o InspectCallsAll(n.kids) \o <<NilNode>>

InspectCallsAll(kids) ==
    IF Len(kids) = 0 THEN <<>> ELSE InspectCalls(kids[1]) \o InspectCallsAll(Tail(kids))

\* The callback applied to the calls that remain; done counts the calls made.
RECURSIVE Inspect(_, _)
Inspect(visits, st) ==
    IF st.done >= Len(visits) THEN st
    ELSE LET n == visits[st.done + 1]
             next == IF n = NilNode THEN inspectLeave(st) ELSE inspectVisit(n, st)
         IN Inspect(visits, [next EXCEPT !.done = st.done + 1])

\* extractCalls: the pairs found by the walk, sorted by from, then to.
extractCalls(file) ==
    LET calls == Inspect(InspectCalls(file),
                         [funcStack |-> <<>>, pushedStack |-> <<>>, calls |-> <<>>, done |-> 0]).calls
    IN SortOn(calls, [c \in Range(calls) |-> <<c.from, c.to>>])

(***************************************************************************)
(* Bounded inputs of extractCalls                                          *)
(***************************************************************************)
DeclCatalog ==
    << \* func f() { a(); func() { b() }(); c() }
       FuncDecl(NoStr, <<"f">>, <<CallExpr(<<"a">>, <<>>),
                                CallExpr(NoStr, <<FuncLit(<<CallExpr(<<"b">>, <<>>)>>)>>),
                                CallExpr(<<"c">>, <<>>)>>),
       \* var x = g()
       OtherNode(<<CallExpr(<<"g">>, <<>>)>>),
       \* func (t *T) m() { a() }
       FuncDecl(<<"*", "T">>, <<"m">>, <<CallExpr(<<"a">>, <<>>)>>),
       \* var h = func() { b(); go func() { a() }(); c() }
       OtherNode(<<FuncLit(<<CallExpr(<<"b">>, <<>>),
                             OtherNode(<<CallExpr(NoStr, <<FuncLit(<<CallExpr(<<"a">>, <<>>)>>)>>)>>),
                             CallExpr(<<"c">>, <<>>)>>)>>),
       \* func g() { func() { a() }(b()) }
       FuncDecl(NoStr, <<"g">>, <<CallExpr(NoStr, <<FuncLit(<<CallExpr(<<"a">>, <<>>)>>),
                                                  CallExpr(<<"b">>, <<>>)>>)>>),
       \* func (t T) n() { c(a()) }
       FuncDecl(<<"T">>, <<"n">>, <<CallExpr(<<"c">>, <<CallExpr(<<"a">>, <<>>)>>)>>) >>

Decls == {DeclCatalog[i] : i \in 1..NumDecls}

\* A file with no declarations.
InitCalls ==
    /\ src = [p \in Paths |-> IF p = PathCatalog[1] THEN FileNode(<<>>) ELSE Absent]
    /\ companion = NoFiles
    /\ genFrom = [p \in Paths |-> NoStr]
    /\ settings = Absent
    /\ modelFile = Absent
    /\ modelFrom = <<>>
    /\ repo = NoRepo
    /\ container = NoContainer
    /\ vault = NoPages
    /\ lastOp = [op |-> "none"]

\* A declaration is added to the file after its first k declarations, and the
\* calls of the file are extracted.
AddDecl(k, decl) ==
    LET p == PathCatalog[1]
        old == src[p].kids
        new == FileNode(SubSeq(old, 1, k) \o <<decl>> \o SubSeq(old, k + 1, Len(old)))
    IN /\ Len(old) < MaxDecls
       /\ k <= Len(old)
       /\ src' = [src EXCEPT ![p] = new]
       /\ lastOp' = [op |-> "calls", calls |-> extractCalls(new)]
       /\ UNCHANGED <<companion, genFrom, settings, modelFile, modelFrom, vault, repo, container>>

NextCalls == \E k \in 0..MaxDecls, decl \in Decls : AddDecl(k, decl)

SpecCalls == InitCalls /\ [][NextCalls]_vars

(***************************************************************************)
(* Claim about call pairs, checked under SpecCalls                         *)
(***************************************************************************)
\* The call sites below node n with their targets, each with the name of the
\* innermost function around it, read off the nesting of the tree: a declaration
\* gives its name, with the receiver for a method, and a function literal the
\* name around it followed by .<anonymous>.
RECURSIVE CallSites(_, _)
CallSites(n, enclosing) ==
    LET inner == IF n.kind = "FuncDecl"
                 THEN (IF n.recv = NoStr THEN n.name ELSE n.recv \o <<".">> \o n.name)
                 ELSE IF n.kind = "FuncLit" THEN enclosing \o S_anonymous
                 ELSE enclosing
    IN (IF n.kind = "CallExpr" /\ n.to # NoStr THEN {[from |-> enclosing, to |-> n.to]} ELSE {})
       \cup UNION {CallSites(n.kids[i], inner) : i \in DOMAIN n.kids}

\* C27: every recorded call pair is a call site of the file with, as from, the
\* innermost function around it (<global> at file scope), also for calls that
\* come after a function literal or an earlier function declaration has ended;
\* and every call site with a target is recorded.
C27_FromIsInnermostFunction ==
    lastOp.op = "calls" =>
        Range(lastOp.calls) = CallSites(src[PathCatalog[1]], S_global)

\* C27 witness: a file in which a call follows a function literal inside a
\* function, and a call at file scope follows a function declaration.
C27_Witness ==
    /\ lastOp.op = "calls"
    /\ [from |-> <<"f">>, to |-> <<"c">>] \in Range(lastOp.calls)
    /\ [from |-> <<"f", ".", "<", "a", "n", "o", "n", "y", "m", "o", "u", "s", ">">>, to |-> <<"b">>] \in Range(lastOp.calls)
    /\ [from |-> S_global, to |-> <<"g">>] \in Range(lastOp.calls)
    /\ [from |-> <<"*", "T", ".", "m">>, to |-> <<"a">>] \in Range(lastOp.calls)
    /\ \E i \in DOMAIN src[PathCatalog[1]].kids :
           /\ src[PathCatalog[1]].kids[i].kind = "Other"
           /\ \E j \in 1..(i - 1) : src[PathCatalog[1]].kids[j].kind = "FuncDecl"

(***************************************************************************)
(* The per-file tasks of a walk and the paths they write                   *)
(*                                                                         *)
(* Here companion holds the disk by output path: the companion files next  *)
(* to the sources, and the output directory of the static plugin.  lastOp  *)
(* holds the walk in progress: the files whose task has not run yet and    *)
(* the writes made so far, each with the file whose task made it.          *)
(***************************************************************************)
S_out == <<"o", "u", "t">>

S_schema_md == <<"s", "c", "h", "e", "m", "a", ".", "m", "d">>

\* writeBundleAt's outputPath: the companion next to the source.
outputPath(absFilePath) == absFilePath \o S_evidence_yaml

\* An output path that leaves the source's directory out.
outFile_BaseOnly(outputDir, relPath) ==
    outputDir \o <<S_slash>> \o Base(relPath) \o S_md

\* writeBundle's outFile: filepath.Join(outputDir, Dir(relPath), Base(relPath)+".md").
outFile(outputDir, relPath) ==
    outputDir \o <<S_slash>>
        \o (IF Len(DirSegs(relPath)) = 0 THEN <<>> ELSE Dir(relPath) \o <<S_slash>>)
        \o Base(relPath) \o S_md

TaskPathCatalog == << <<"c", ".", "g", "o">>, <<"b", "/", "c", ".", "g", "o">>, <<"b", "/", "d", ".", "g", "o">>, <<"s", "/", "c", ".", "g", "o">> >>

TaskPaths == {TaskPathCatalog[i] : i \in 1..NumTaskPaths}

DiskPaths ==
    {outputPath(p) : p \in TaskPaths} \cup {outFile(S_out, p) : p \in TaskPaths}
        \cup {S_out \o <<S_slash>> \o S_schema_md}

\* The task of walkAndGenerate for one file: build the bundle, then writeBundleAt.
evidenceTask(absPath, tree, disk) ==
    LET bundle == buildBundleForFile(absPath, tree[absPath])
    IN IF bundle \in {ReadError, ParseError} THEN [wrote |-> FALSE, path |-> NoStr, disk |-> disk]
       ELSE [wrote |-> TRUE, path |-> outputPath(absPath),
             disk |-> [disk EXCEPT ![outputPath(absPath)] = bundle]]

\* The task of AnalyzeDir for one file: writeBundle on the output directory.
staticTask(relPath, tree, disk) ==
    LET out == [q \in DOMAIN tree |-> disk[outFile(S_out, q)]]
        w == writeBundle(relPath, S_repo_url, CommitCatalog[1], tree, out)
    IN IF w.err # "none" \/ w.skipped THEN [wrote |-> FALSE, path |-> NoStr, disk |-> disk]
       ELSE [wrote |-> TRUE, path |-> outFile(S_out, relPath),
             disk |-> [disk EXCEPT ![outFile(S_out, relPath)] = w.out[relPath]]]

\* A tree of sources for the walk of the given kind, and nothing written yet.
InitTasks ==
    /\ \E mode \in {"evidence", "static"} :
          /\ lastOp = [op |-> "none", mode |-> mode, pending |-> {}, writes |-> <<>>]
          /\ src \in IF mode = "static" THEN [TaskPaths -> StaticSources \cup {Absent}]
                     ELSE {t \in [TaskPaths -> UNION {TreeFilesAt(p) : p \in TaskPaths}] :
                              \A p \in TaskPaths : t[p] \in TreeFilesAt(p)}
    /\ companion = [d \in DiskPaths |-> Absent]
    /\ genFrom = [p \in Paths |-> NoStr]
    /\ settings = Absent
    /\ modelFile = Absent
    /\ modelFrom = <<>>
    /\ repo = NoRepo
    /\ container = NoContainer
    /\ vault = NoPages

\* A walk starts: the files are collected; AnalyzeDir first copies schema.md into
\* the output directory.
StartWalk ==
    /\ lastOp.pending = {}
    /\ companion' = IF lastOp.mode = "static"
                    THEN [companion EXCEPT ![S_out \o <<S_slash>> \o S_schema_md] = [kind |-> "schema"]]
                    ELSE companion
    /\ lastOp' = [op |-> "start", mode |-> lastOp.mode, pending |-> Range(WalkOrder(src)),
                  writes |-> <<>>]
    /\ UNCHANGED <<src, genFrom, settings, modelFile, modelFrom, vault, repo, container>>

\* The task of one collected file runs.  The code runs the tasks one after the
\* other in sorted order; here they run in any order.
RunTask(p) ==
    LET r == IF lastOp.mode = "static" THEN staticTask(p, src, companion)
             ELSE evidenceTask(p, src, companion)
    IN /\ p \in lastOp.pending
       /\ companion' = r.disk
       /\ lastOp' = [op |-> "task", mode |-> lastOp.mode, pending |-> lastOp.pending \ {p},
                     writes |-> IF r.wrote THEN Append(lastOp.writes, [task |-> p, path |-> r.path])
                                ELSE lastOp.writes,
                     task |-> p]
       /\ UNCHANGED <<src, genFrom, settings, modelFile, modelFrom, vault, repo, container>>

NextTasks ==
    \/ StartWalk
    \/ \E p \in TaskPaths : RunTask(p)

SpecTasks == InitTasks /\ [][NextTasks]_vars

==============================================================================
